---- MODULE Spec2Model ----
(***************************************************************************)
(* The code generation engine of the database modelling tool: the naming   *)
(* helpers, the model query helpers, the generators and the preview        *)
(* dispatcher (useCodePreview), as a state machine over one DataModel      *)
(* snapshot, the selected preview tab, the clock and the generated text.   *)
(* A second specification, Helpers, applies the exported helpers one call  *)
(* at a time to arguments drawn from bounded sets.                         *)
(*                                                                         *)
(* Strings are TLC strings, processed character by character with Len and  *)
(* SubSeq.  A generator builds a sequence of lines (the code's string[])   *)
(* and joinLines joins it with "\n", as the code does.                     *)
(***************************************************************************)
EXTENDS Integers, Sequences, FiniteSets, TLC

VARIABLES
    model,      \* useModelStore state.model: <<>> (null) or <<m>> (a DataModel)
    tab,        \* activeTab of CodePreviewContainer
    out,        \* the string useCodePreview returned at its last computation
    clock,      \* the reading of the system clock (new Date()), in milliseconds
    call,       \* the helper call made last: <<>> (none) or <<its name and arguments>>
    result,     \* what that call returned
    events,     \* useActivityStore state.events, newest first
    added,      \* how many events addEvent has created (the n-th has id n)
    workspaces,         \* useWorkspaceStore state.workspaces
    activeWorkspaceId,  \* state.activeWorkspaceId: <<>> (null) or <<id>>
    isLoading,          \* state.isLoading
    created,            \* how many ids uuidv4() has handed to the workspace store
    isSignedIn,         \* useAuth().isSignedIn as useDataSync reads it
    syncState,          \* the syncState of useDataSync
    syncing,            \* whether a syncFromBackend call is waiting for the backend
    seen,               \* the dependencies the auto-sync effect last ran with: <<>> or <<deps>>
    attempts,           \* automatic syncFromBackend calls since the last sign-in
    syncs,              \* automatic syncFromBackend calls in all
    pageWorkspaceId,    \* the workspaceId of the designer page and of its useAutoSave: <<>> or <<id>>
    current,            \* useModelStore state.model as useAutoSave reads it: <<>> or <<[id, updatedAt]>>
    isDirty,            \* useModelStore state.isDirty
    isSavingRef,        \* isSavingRef.current of useAutoSave
    pendingSaveRef,     \* pendingSaveRef.current: <<>> (null) or <<model>>
    lastSaveTimeRef,    \* lastSaveTimeRef.current: 0, or 1 for the time of a successful save
    throttleTimer,      \* the live timer of throttleTimerRef: <<>> or <<the model it will save>>
    pendingTimers,      \* the live 100 ms timers of saveModel, in the order they were set
    earlyTimers,        \* how many of the oldest of them are due within throttleMs of lastSaveTimeRef
    inflight,           \* the backend requests of saveModel that have not settled
    backend,            \* the schema the backend holds: <<>> or <<the model written last>>
    saveCall,           \* the calls of saveModel: how many, and the model of the last one
    handed,             \* the model the subscription or saveNow handed over last: <<>> or <<model>>
    saveNows,           \* how many times saveNow was called
    localStorage,       \* localStorage: each key of STORAGE_KEYS is <<>> (absent) or <<value>>
    memory,             \* whose data each persisted store holds in memory
    isLoaded,           \* useAuth().isLoaded
    userId,             \* useAuth().userId: <<>> (null or undefined) or <<id>>
    hasInitializedRef,  \* hasInitializedRef.current of useUserSession
    previousUserIdRef,  \* previousUserIdRef.current: <<>> or <<id>>
    sessionSeen         \* the dependencies the session effect last ran with: <<>> or <<deps>>

\* the designer, its preview and the helper calls
designerVars == <<model, tab, out, clock, call, result>>

\* the activity store
activityVars == <<events, added>>

\* the workspace store
workspaceVars == <<workspaces, activeWorkspaceId, isLoading, created>>

\* useDataSync
syncVars == <<isSignedIn, syncState, syncing, seen, attempts, syncs>>

\* useAutoSave
autoSaveVars ==
    <<pageWorkspaceId, current, isDirty, isSavingRef, pendingSaveRef, lastSaveTimeRef,
      throttleTimer, pendingTimers, earlyTimers, inflight, backend, saveCall, handed, saveNows>>

\* useUserSession
sessionVars ==
    <<localStorage, memory, isLoaded, userId, hasInitializedRef, previousUserIdRef, sessionSeen>>

\* the stores and hooks around the designer
hookVars == <<activityVars, workspaceVars, syncVars, autoSaveVars, sessionVars>>

vars == <<designerVars, hookVars>>

----------------------------------------------------------------------------
(* Characters and strings *)

Range(s) == {s[i] : i \in 1..Len(s)}

charAt(s, i) == IF i >= 1 /\ i <= Len(s) THEN SubSeq(s, i, i) ELSE ""

slice(s, from, to) == IF from > to THEN "" ELSE SubSeq(s, from, to)

endsWith(s, suf) ==
    Len(s) >= Len(suf) /\ slice(s, Len(s) - Len(suf) + 1, Len(s)) = suf

startsWith(s, pre) == Len(s) >= Len(pre) /\ slice(s, 1, Len(pre)) = pre

LowerLetters ==
    {"a","b","c","d","e","f","g","h","i","j","k","l","m",
     "n","o","p","q","r","s","t","u","v","w","x","y","z"}

UpperLetters ==
    {"A","B","C","D","E","F","G","H","I","J","K","L","M",
     "N","O","P","Q","R","S","T","U","V","W","X","Y","Z"}

Digits == {"0","1","2","3","4","5","6","7","8","9"}

\* String.prototype.toUpperCase on one character
toUpperCase(c) ==
    CASE c = "a" -> "A" [] c = "b" -> "B" [] c = "c" -> "C" [] c = "d" -> "D"
      [] c = "e" -> "E" [] c = "f" -> "F" [] c = "g" -> "G" [] c = "h" -> "H"
      [] c = "i" -> "I" [] c = "j" -> "J" [] c = "k" -> "K" [] c = "l" -> "L"
      [] c = "m" -> "M" [] c = "n" -> "N" [] c = "o" -> "O" [] c = "p" -> "P"
      [] c = "q" -> "Q" [] c = "r" -> "R" [] c = "s" -> "S" [] c = "t" -> "T"
      [] c = "u" -> "U" [] c = "v" -> "V" [] c = "w" -> "W" [] c = "x" -> "X"
      [] c = "y" -> "Y" [] c = "z" -> "Z" [] OTHER -> c

\* String.prototype.toLowerCase on one character
toLowerCase(c) ==
    CASE c = "A" -> "a" [] c = "B" -> "b" [] c = "C" -> "c" [] c = "D" -> "d"
      [] c = "E" -> "e" [] c = "F" -> "f" [] c = "G" -> "g" [] c = "H" -> "h"
      [] c = "I" -> "i" [] c = "J" -> "j" [] c = "K" -> "k" [] c = "L" -> "l"
      [] c = "M" -> "m" [] c = "N" -> "n" [] c = "O" -> "o" [] c = "P" -> "p"
      [] c = "Q" -> "q" [] c = "R" -> "r" [] c = "S" -> "s" [] c = "T" -> "t"
      [] c = "U" -> "u" [] c = "V" -> "v" [] c = "W" -> "w" [] c = "X" -> "x"
      [] c = "Y" -> "y" [] c = "Z" -> "z" [] OTHER -> c

\* the class [-_\s] of toPascalCase's first pattern
IsSeparator(c) == c \in {"-", "_", " ", "\t", "\n"}

\* str.replace(/[-_\s]+(.)?/g, (_, c) => (c ? c.toUpperCase() : '')), from index i:
\* a run of separators is dropped and the character after it, if any, upper-cased
RECURSIVE replaceSeparators(_, _)
replaceSeparators(str, i) ==
    IF i > Len(str) THEN ""
    ELSE IF IsSeparator(charAt(str, i))
         THEN LET RECURSIVE runEnd(_)
                  runEnd(j) == IF j <= Len(str) /\ IsSeparator(charAt(str, j))
                               THEN runEnd(j + 1) ELSE j
                  k == runEnd(i)
              IN  IF k > Len(str) THEN ""
                  ELSE toUpperCase(charAt(str, k)) \o replaceSeparators(str, k + 1)
         ELSE charAt(str, i) \o replaceSeparators(str, i + 1)

\* .replace(/^(.)/, (c) => c.toUpperCase())
upperFirst(s) == IF s = "" THEN "" ELSE toUpperCase(charAt(s, 1)) \o slice(s, 2, Len(s))

toPascalCase(str) == upperFirst(replaceSeparators(str, 1))

toCamelCase(str) ==
    LET pascal == toPascalCase(str)
    IN  toLowerCase(charAt(pascal, 1)) \o slice(pascal, 2, Len(pascal))

toPlural(str) ==
    IF endsWith(str, "y") /\ ~(\E v \in {"ay", "ey", "iy", "oy", "uy"} : endsWith(str, v))
    THEN slice(str, 1, Len(str) - 1) \o "ies"
    ELSE IF endsWith(str, "s") \/ endsWith(str, "x") \/ endsWith(str, "ch") \/ endsWith(str, "sh")
    THEN str \o "es"
    ELSE IF endsWith(str, "f")
    THEN slice(str, 1, Len(str) - 1) \o "ves"
    ELSE IF endsWith(str, "fe")
    THEN slice(str, 1, Len(str) - 2) \o "ves"
    ELSE str \o "s"

\* str.replace(/[^a-zA-Z0-9_]/g, '')
RECURSIVE sanitizeFrom(_, _)
sanitizeFrom(str, i) ==
    IF i > Len(str) THEN ""
    ELSE (IF charAt(str, i) \in LowerLetters \cup UpperLetters \cup Digits \cup {"_"}
          THEN charAt(str, i) ELSE "") \o sanitizeFrom(str, i + 1)

sanitizeName(str) == sanitizeFrom(str, 1)

getNamespace(modelName) == toPascalCase(sanitizeName(modelName))

\* lines.join('\n') of lines[lo..hi], by halves
RECURSIVE joinFrom(_, _, _)
joinFrom(lines, lo, hi) ==
    IF lo > hi THEN ""
    ELSE IF lo = hi THEN lines[lo]
    ELSE LET mid == (lo + hi) \div 2
         IN  joinFrom(lines, lo, mid) \o "\n" \o joinFrom(lines, mid + 1, hi)

joinLines(lines) == joinFrom(lines, 1, Len(lines))

----------------------------------------------------------------------------
(* The DataModel: a Field is [id, name, type, constraints], an Entity is     *)
(* [id, name, tableName, fields], a Relation is [id, sourceEntityId,         *)
(* targetEntityId, cardinality, onDelete], a DataModel is [name, entities,   *)
(* relations, indexes].  An optional number is <<>> (undefined) or <<n>>; an *)
(* optional string is "" when it is undefined or empty (both are falsy).     *)

RECURSIVE FlatMapRange(_, _, _, _)
FlatMapRange(F(_), s, lo, hi) ==
    IF lo > hi THEN <<>>
    ELSE IF lo = hi THEN F(s[lo])
    ELSE LET mid == (lo + hi) \div 2
         IN  FlatMapRange(F, s, lo, mid) \o FlatMapRange(F, s, mid + 1, hi)

FlatMap(F(_), s) == FlatMapRange(F, s, 1, Len(s))

\* Array.prototype.find: <<>> (undefined) or <<the first element satisfying Test>>
find(s, Test(_)) ==
    LET m == SelectSeq(s, Test) IN IF m = <<>> THEN <<>> ELSE <<m[1]>>

\* the truthiness of an optional number: undefined and 0 are falsy
truthy(n) == n # <<>> /\ n[1] # 0

\* a ?? d
orDefault(n, d) == IF n = <<>> THEN d ELSE n[1]

RECURSIVE lowerFrom(_, _)
lowerFrom(s, i) ==
    IF i > Len(s) THEN "" ELSE toLowerCase(charAt(s, i)) \o lowerFrom(s, i + 1)

\* String.prototype.toLowerCase
toLowerCaseStr(s) == lowerFrom(s, 1)

FieldTypes ==
    {"string", "int", "long", "decimal", "double", "float", "bool", "DateTime",
     "DateOnly", "TimeOnly", "Guid", "byte[]", "json"}

\* CSHARP_TYPE_MAP[type]; "" stands for undefined (a type outside the table)
CSHARP_TYPE_MAP(type) ==
    CASE type = "string" -> "string"
      [] type = "int" -> "int"
      [] type = "long" -> "long"
      [] type = "decimal" -> "decimal"
      [] type = "double" -> "double"
      [] type = "float" -> "float"
      [] type = "bool" -> "bool"
      [] type = "DateTime" -> "DateTime"
      [] type = "DateOnly" -> "DateOnly"
      [] type = "TimeOnly" -> "TimeOnly"
      [] type = "Guid" -> "Guid"
      [] type = "byte[]" -> "byte[]"
      [] type = "json" -> "string"
      [] OTHER -> ""

getTableName(entity) ==
    IF entity.tableName # "" THEN entity.tableName ELSE toPlural(entity.name)

getCSharpType(field) ==
    LET mapped == CSHARP_TYPE_MAP(field.type)
        baseType == IF mapped # "" THEN mapped ELSE "object"
        isNullable == ~field.constraints.isRequired /\ ~field.constraints.isPrimaryKey
    IN  IF baseType = "string" \/ baseType = "byte[]"
        THEN (IF isNullable THEN baseType \o "?" ELSE baseType)
        ELSE (IF isNullable THEN baseType \o "?" ELSE baseType)

getPrimaryKeyField(entity) ==
    find(entity.fields, LAMBDA f : f.constraints.isPrimaryKey)

\* getEntityById with the slip of falling back to the first entity
getEntityByIdOrFirst(m, id) ==
    LET found == find(m.entities, LAMBDA e : e.id = id)
    IN  IF found # <<>> \/ Len(m.entities) = 0 THEN found ELSE <<m.entities[1]>>

getEntityById(m, entityId) ==
    find(m.entities, LAMBDA e : e.id = entityId)

getEntityRelations(entity, relations) ==
    [outgoing |-> SelectSeq(relations, LAMBDA r : r.sourceEntityId = entity.id),
     incoming |-> SelectSeq(relations, LAMBDA r : r.targetEntityId = entity.id)]

getDefaultValueExpression(field) ==
    LET defaultVal == field.constraints.defaultValue
        lower == toLowerCaseStr(defaultVal)
    IN  IF defaultVal # ""
        THEN CASE field.type = "string" -> " = \"" \o defaultVal \o "\";"
               [] field.type = "bool" -> " = " \o lower \o ";"
               [] field.type = "Guid" ->
                    IF lower = "newguid" \/ lower = "newid"
                    THEN " = Guid.NewGuid();"
                    ELSE " = Guid.Parse(\"" \o defaultVal \o "\");"
               [] field.type = "DateTime" ->
                    IF lower = "now" \/ lower = "getdate" THEN " = DateTime.Now;"
                    ELSE IF lower = "utcnow" \/ lower = "getutcdate" THEN " = DateTime.UtcNow;"
                    ELSE ""
               [] OTHER -> " = " \o defaultVal \o ";"
        ELSE IF field.type = "string" /\ field.constraints.isRequired
        THEN " = string.Empty;"
        ELSE ""

\* regex.replace(/\\/g, '\\\\'): every backslash is doubled
RECURSIVE escapeFrom(_, _)
escapeFrom(s, i) ==
    IF i > Len(s) THEN ""
    ELSE (IF charAt(s, i) = "\\" THEN "\\\\" ELSE charAt(s, i)) \o escapeFrom(s, i + 1)

generateFieldAttributes(field) ==
    LET c == field.constraints
        precision == orDefault(c.precision, 18)
        scale == orDefault(c.scale, 2)
    IN  (IF c.isPrimaryKey
         THEN <<"[Key]">> \o
              (IF c.isAutoGenerated
               THEN (IF field.type = "int" \/ field.type = "long"
                     THEN <<"[DatabaseGenerated(DatabaseGeneratedOption.Identity)]">>
                     ELSE IF field.type = "Guid"
                     THEN <<"[DatabaseGenerated(DatabaseGeneratedOption.Identity)]">>
                     ELSE <<>>)
               ELSE <<>>)
         ELSE <<>>)
        \o (IF c.isRequired /\ ~c.isPrimaryKey /\ field.type = "string"
            THEN <<"[Required]">> ELSE <<>>)
        \o (IF field.type = "string"
            THEN (IF truthy(c.maxLength) /\ truthy(c.minLength)
                  THEN <<"[StringLength(" \o ToString(c.maxLength[1])
                         \o ", MinimumLength = " \o ToString(c.minLength[1]) \o ")]">>
                  ELSE IF truthy(c.maxLength)
                  THEN <<"[MaxLength(" \o ToString(c.maxLength[1]) \o ")]">>
                  ELSE IF truthy(c.minLength)
                  THEN <<"[MinLength(" \o ToString(c.minLength[1]) \o ")]">>
                  ELSE <<>>)
            ELSE <<>>)
        \o (IF c.regex # ""
            THEN <<"[RegularExpression(@\"" \o escapeFrom(c.regex, 1) \o "\")]">>
            ELSE <<>>)
        \o (IF field.type = "decimal" /\ (truthy(c.precision) \/ truthy(c.scale))
            THEN <<"[Precision(" \o ToString(precision) \o ", " \o ToString(scale) \o ")]">>
            ELSE <<>>)
        \o (IF field.type = "json"
            THEN <<"[Column(TypeName = \"nvarchar(max)\")]">> ELSE <<>>)

getForeignKeyName(targetEntity) == toPascalCase(targetEntity.name) \o "Id"

getNavigationPropertyName(entity, isCollection) ==
    IF isCollection THEN toPlural(toPascalCase(entity.name)) ELSE toPascalCase(entity.name)

----------------------------------------------------------------------------
(* ef-core-generator.ts *)

\* entityFkProps with the slip of not looking at the cardinality
entityFkPropsAnyCardinality(entity, outgoing, allEntities) ==
    FlatMap(LAMBDA rel :
        LET target == getEntityById([entities |-> allEntities], rel.targetEntityId)
        IN  IF target = <<>> THEN <<>>
            ELSE IF rel.cardinality # ""
            THEN LET targetEntity == target[1]
                     fkName == getForeignKeyName(targetEntity)
                     pkField == getPrimaryKeyField(targetEntity)
                     fkType == IF pkField # <<>>
                               THEN getCSharpType(
                                      [pkField[1] EXCEPT !.constraints.isRequired = FALSE])
                               ELSE "Guid?"
                     existingFk == find(entity.fields,
                                     LAMBDA f : toPascalCase(f.name) = fkName \/ f.name = fkName)
                 IN  IF existingFk = <<>>
                     THEN <<"    // Foreign Key to " \o targetEntity.name,
                            "    public " \o fkType \o " " \o fkName \o " { get; set; }",
                            "">>
                     ELSE <<>>
            ELSE <<>>,
        outgoing)

\* the foreign-key properties of generateEntityClass (the fkProps array)
entityFkProps(entity, outgoing, allEntities) ==
    FlatMap(LAMBDA rel :
        LET target == getEntityById([entities |-> allEntities], rel.targetEntityId)
        IN  IF target = <<>> THEN <<>>
            ELSE IF rel.cardinality = "one-to-many" \/ rel.cardinality = "one-to-one"
            THEN LET targetEntity == target[1]
                     fkName == getForeignKeyName(targetEntity)
                     pkField == getPrimaryKeyField(targetEntity)
                     fkType == IF pkField # <<>>
                               THEN getCSharpType(
                                      [pkField[1] EXCEPT !.constraints.isRequired = FALSE])
                               ELSE "Guid?"
                     existingFk == find(entity.fields,
                                     LAMBDA f : toPascalCase(f.name) = fkName \/ f.name = fkName)
                 IN  IF existingFk = <<>>
                     THEN <<"    // Foreign Key to " \o targetEntity.name,
                            "    public " \o fkType \o " " \o fkName \o " { get; set; }",
                            "">>
                     ELSE <<>>
            ELSE <<>>,
        outgoing)

\* entityNavOutgoing with the slip of building the attribute's name on its own
entityNavOutgoingOwnFkName(outgoing, allEntities) ==
    FlatMap(LAMBDA rel :
        LET target == getEntityById([entities |-> allEntities], rel.targetEntityId)
        IN  IF target = <<>> THEN <<>>
            ELSE LET targetName == toPascalCase(target[1].name)
                     fkName == targetName \o "ID"
                 IN  (IF rel.cardinality = "many-to-many"
                      THEN <<"    public virtual ICollection<" \o targetName \o "> "
                             \o toPlural(targetName) \o " { get; set; } = new List<"
                             \o targetName \o ">();">>
                      ELSE <<"    [ForeignKey(\"" \o fkName \o "\")]",
                             "    public virtual " \o targetName \o "? " \o targetName
                             \o " { get; set; }">>)
                     \o <<"">>,
        outgoing)

\* the navigation properties of generateEntityClass for the outgoing relations
entityNavOutgoing(outgoing, allEntities) ==
    FlatMap(LAMBDA rel :
        LET target == getEntityById([entities |-> allEntities], rel.targetEntityId)
        IN  IF target = <<>> THEN <<>>
            ELSE LET targetName == toPascalCase(target[1].name)
                     fkName == getForeignKeyName(target[1])
                 IN  (IF rel.cardinality = "many-to-many"
                      THEN <<"    public virtual ICollection<" \o targetName \o "> "
                             \o toPlural(targetName) \o " { get; set; } = new List<"
                             \o targetName \o ">();">>
                      ELSE <<"    [ForeignKey(\"" \o fkName \o "\")]",
                             "    public virtual " \o targetName \o "? " \o targetName
                             \o " { get; set; }">>)
                     \o <<"">>,
        outgoing)

\* entityNavIncoming with the slip of a collection for an incoming many-to-many too
entityNavIncomingBothWays(incoming, allEntities) ==
    FlatMap(LAMBDA rel :
        LET source == getEntityById([entities |-> allEntities], rel.sourceEntityId)
        IN  IF source = <<>> THEN <<>>
            ELSE LET sourceName == toPascalCase(source[1].name)
                 IN  (IF rel.cardinality = "one-to-many"
                      THEN <<"    public virtual ICollection<" \o sourceName \o "> "
                             \o toPlural(sourceName) \o " { get; set; } = new List<"
                             \o sourceName \o ">();">>
                      ELSE IF rel.cardinality = "one-to-one"
                      THEN <<"    public virtual " \o sourceName \o "? " \o sourceName
                             \o " { get; set; }">>
                      ELSE <<"    public virtual ICollection<" \o sourceName \o "> "
                             \o toPlural(sourceName) \o " { get; set; } = new List<"
                             \o sourceName \o ">();">>)
                     \o <<"">>,
        incoming)

\* the navigation properties of generateEntityClass for the incoming relations
entityNavIncoming(incoming, allEntities) ==
    FlatMap(LAMBDA rel :
        LET source == getEntityById([entities |-> allEntities], rel.sourceEntityId)
        IN  IF source = <<>> THEN <<>>
            ELSE LET sourceName == toPascalCase(source[1].name)
                 IN  (IF rel.cardinality = "one-to-many"
                      THEN <<"    public virtual ICollection<" \o sourceName \o "> "
                             \o toPlural(sourceName) \o " { get; set; } = new List<"
                             \o sourceName \o ">();">>
                      ELSE IF rel.cardinality = "one-to-one"
                      THEN <<"    public virtual " \o sourceName \o "? " \o sourceName
                             \o " { get; set; }">>
                      ELSE <<>>)
                     \o <<"">>,
        incoming)

\* the property lines of one declared field
entityFieldLines(field) ==
    FlatMap(LAMBDA attr : <<"    " \o attr>>, generateFieldAttributes(field))
    \o <<"    public " \o getCSharpType(field) \o " " \o toPascalCase(field.name)
         \o " { get; set; }" \o getDefaultValueExpression(field),
         "">>

generateEntityClass(entity, relations, allEntities) ==
    LET tableName == getTableName(entity)
        rels == getEntityRelations(entity, relations)
        fkProps == entityFkProps(entity, rels.outgoing, allEntities)
        navProps == entityNavOutgoing(rels.outgoing, allEntities)
                    \o entityNavIncoming(rels.incoming, allEntities)
    IN  (IF entity.tableName # "" /\ entity.tableName # toPlural(entity.name)
         THEN <<"[Table(\"" \o tableName \o "\")]">> ELSE <<>>)
        \o <<"public class " \o toPascalCase(entity.name), "{">>
        \o (IF Len(entity.fields) > 0 THEN <<"    // Properties">> ELSE <<>>)
        \o FlatMap(entityFieldLines, entity.fields)
        \o (IF Len(fkProps) > 0 THEN <<"    // Foreign Keys">> \o fkProps ELSE <<>>)
        \o (IF Len(navProps) > 0 THEN <<"    // Navigation Properties">> \o navProps ELSE <<>>)
        \o <<"}">>

\* the loop of generateEFCoreEntities over model.entities, from index i
RECURSIVE entityClassesFrom(_, _)
entityClassesFrom(m, i) ==
    IF i > Len(m.entities) THEN <<>>
    ELSE generateEntityClass(m.entities[i], m.relations, m.entities)
         \o (IF i < Len(m.entities) THEN <<"">> ELSE <<>>)
         \o entityClassesFrom(m, i + 1)

generateEFCoreEntities(m) ==
    joinLines(
        <<"using System;",
          "using System.Collections.Generic;",
          "using System.ComponentModel.DataAnnotations;",
          "using System.ComponentModel.DataAnnotations.Schema;",
          "using Microsoft.EntityFrameworkCore;",
          "",
          "namespace " \o getNamespace(m.name) \o ".Entities;",
          "">>
        \o entityClassesFrom(m, 1))

----------------------------------------------------------------------------
(* dbcontext-generator.ts *)

\* a table that also has the hyphenated spellings as keys
DELETE_BEHAVIOR_MAP_hyphenated(key) ==
    CASE key \in {"cascade", "CASCADE"} -> "Cascade"
      [] key \in {"restrict", "RESTRICT"} -> "Restrict"
      [] key \in {"setNull", "SET NULL", "set-null"} -> "SetNull"
      [] key \in {"noAction", "NO ACTION", "no-action"} -> "NoAction"
      [] OTHER -> ""

\* DELETE_BEHAVIOR_MAP[key]; "" stands for undefined (a key outside the table)
DELETE_BEHAVIOR_MAP(key) ==
    CASE key = "cascade" -> "Cascade"
      [] key = "restrict" -> "Restrict"
      [] key = "setNull" -> "SetNull"
      [] key = "noAction" -> "NoAction"
      [] key = "CASCADE" -> "Cascade"
      [] key = "RESTRICT" -> "Restrict"
      [] key = "SET NULL" -> "SetNull"
      [] key = "NO ACTION" -> "NoAction"
      [] OTHER -> ""

\* relationshipLines with a many-to-many relation wired like a one-to-many one
relationshipLinesAllSingleOwner(entityName, rel, allEntities) ==
    LET target == getEntityById([entities |-> allEntities], rel.targetEntityId)
    IN  IF target = <<>> THEN <<>>
        ELSE (IF rel.cardinality = "one-to-one"
              THEN <<"            entity.HasOne(e => e." \o toPascalCase(target[1].name) \o ")",
                     "                .WithOne(t => t." \o entityName \o ")",
                     "                .HasForeignKey<" \o entityName \o ">(e => e."
                       \o getForeignKeyName(target[1]) \o ")",
                     "                .OnDelete(DeleteBehavior."
                       \o (IF DELETE_BEHAVIOR_MAP(rel.onDelete) # ""
                           THEN DELETE_BEHAVIOR_MAP(rel.onDelete) ELSE "NoAction") \o ");">>
              ELSE <<"            entity.HasOne(e => e." \o toPascalCase(target[1].name) \o ")",
                     "                .WithMany(t => t." \o toPlural(entityName) \o ")",
                     "                .HasForeignKey(e => e." \o getForeignKeyName(target[1]) \o ")",
                     "                .OnDelete(DeleteBehavior."
                       \o (IF DELETE_BEHAVIOR_MAP(rel.onDelete) # ""
                           THEN DELETE_BEHAVIOR_MAP(rel.onDelete) ELSE "NoAction") \o ");">>)
             \o <<"">>

\* the relationship wiring of generateEntityConfiguration for one outgoing relation
relationshipLines(entityName, rel, allEntities) ==
    LET target == getEntityById([entities |-> allEntities], rel.targetEntityId)
    IN  IF target = <<>> THEN <<>>
        ELSE LET targetName == toPascalCase(target[1].name)
                 fkName == getForeignKeyName(target[1])
                 mapped == DELETE_BEHAVIOR_MAP(rel.onDelete)
                 deleteBehavior == IF mapped # "" THEN mapped ELSE "NoAction"
             IN  (IF rel.cardinality = "one-to-many"
                  THEN <<"            entity.HasOne(e => e." \o targetName \o ")",
                         "                .WithMany(t => t." \o toPlural(entityName) \o ")",
                         "                .HasForeignKey(e => e." \o fkName \o ")",
                         "                .OnDelete(DeleteBehavior." \o deleteBehavior \o ");">>
                  ELSE IF rel.cardinality = "one-to-one"
                  THEN <<"            entity.HasOne(e => e." \o targetName \o ")",
                         "                .WithOne(t => t." \o entityName \o ")",
                         "                .HasForeignKey<" \o entityName \o ">(e => e." \o fkName \o ")",
                         "                .OnDelete(DeleteBehavior." \o deleteBehavior \o ");">>
                  ELSE IF rel.cardinality = "many-to-many"
                  THEN <<"            entity.HasMany(e => e." \o toPlural(targetName) \o ")",
                         "                .WithMany(t => t." \o toPlural(entityName) \o ")",
                         "                .UsingEntity(j => j.ToTable(\"" \o entityName \o targetName \o "\"));">>
                  ELSE <<>>)
                 \o <<"">>

generateEntityConfiguration(entity, relations, allEntities) ==
    LET entityName == toPascalCase(entity.name)
        tableName == getTableName(entity)
        outgoing == getEntityRelations(entity, relations).outgoing
        pkField == getPrimaryKeyField(entity)
        uniqueFields == SelectSeq(entity.fields,
                          LAMBDA f : f.constraints.isUnique /\ ~f.constraints.isPrimaryKey)
        fieldsNeedingConfig ==
            SelectSeq(entity.fields,
              LAMBDA f : (f.type = "decimal"
                          /\ (truthy(f.constraints.precision) \/ truthy(f.constraints.scale)))
                         \/ f.type = "json")
    IN  <<"        // " \o entityName \o " configuration",
          "        modelBuilder.Entity<" \o entityName \o ">(entity =>",
          "        {",
          "            entity.ToTable(\"" \o tableName \o "\");",
          "">>
        \o (IF pkField # <<>>
            THEN <<"            entity.HasKey(e => e." \o toPascalCase(pkField[1].name) \o ");",
                   "">>
            ELSE <<>>)
        \o (IF Len(uniqueFields) > 0
            THEN <<"            // Unique constraints">>
                 \o FlatMap(LAMBDA field :
                      <<"            entity.HasIndex(e => e." \o toPascalCase(field.name) \o ")",
                        "                .IsUnique();">>,
                      uniqueFields)
                 \o <<"">>
            ELSE <<>>)
        \o (IF Len(fieldsNeedingConfig) > 0
            THEN <<"            // Property configurations">>
                 \o FlatMap(LAMBDA field :
                      (IF field.type = "decimal"
                       THEN <<"            entity.Property(e => e." \o toPascalCase(field.name) \o ")",
                              "                .HasPrecision("
                              \o ToString(orDefault(field.constraints.precision, 18)) \o ", "
                              \o ToString(orDefault(field.constraints.scale, 2)) \o ");">>
                       ELSE <<>>)
                      \o (IF field.type = "json"
                          THEN <<"            entity.Property(e => e." \o toPascalCase(field.name) \o ")",
                                 "                .HasColumnType(\"nvarchar(max)\");">>
                          ELSE <<>>),
                      fieldsNeedingConfig)
                 \o <<"">>
            ELSE <<>>)
        \o (IF Len(outgoing) > 0
            THEN <<"            // Relationships">>
                 \o FlatMap(LAMBDA rel : relationshipLines(entityName, rel, allEntities),
                            outgoing)
            ELSE <<>>)
        \o <<"        });">>

\* array.join(', ')
RECURSIVE joinComma(_, _)
joinComma(items, i) ==
    IF i > Len(items) THEN ""
    ELSE IF i = Len(items) THEN items[i]
    ELSE items[i] \o ", " \o joinComma(items, i + 1)

generateIndexConfigurations(indexes, entities) ==
    IF Len(indexes) = 0 THEN <<>>
    ELSE <<"        // Index configurations">>
         \o FlatMap(LAMBDA index :
              LET found == find(entities, LAMBDA e : e.id = index.entityId)
              IN  IF found = <<>> THEN <<>>
                  ELSE LET entity == found[1]
                           entityName == toPascalCase(entity.name)
                           fieldNames ==
                               FlatMap(LAMBDA fieldId :
                                   LET f == find(entity.fields, LAMBDA x : x.id = fieldId)
                                   IN  IF f = <<>> \/ f[1].name = "" THEN <<>>
                                       ELSE <<"e." \o toPascalCase(f[1].name)>>,
                                   index.fieldIds)
                           indexExpr == IF Len(fieldNames) = 1 THEN fieldNames[1]
                                        ELSE "new { " \o joinComma(fieldNames, 1) \o " }"
                       IN  IF Len(fieldNames) = 0 THEN <<>>
                           ELSE <<"        modelBuilder.Entity<" \o entityName \o ">()",
                                  "            .HasIndex(e => " \o indexExpr \o ")">>
                                \o (IF index.isUnique THEN <<"            .IsUnique()">> ELSE <<>>)
                                \o (IF index.isClustered THEN <<"            .IsClustered()">> ELSE <<>>)
                                \o <<"            .HasDatabaseName(\"" \o index.name \o "\");",
                                     "">>,
              indexes)

generateDbContext(m) ==
    LET namespace == getNamespace(m.name)
        contextName == namespace \o "DbContext"
    IN  joinLines(
          <<"using Microsoft.EntityFrameworkCore;",
            "using " \o namespace \o ".Entities;",
            "",
            "namespace " \o namespace \o ".Data;",
            "",
            "public class " \o contextName \o " : DbContext",
            "{",
            "    public " \o contextName \o "(DbContextOptions<" \o contextName
              \o "> options) : base(options)",
            "    {",
            "    }",
            "",
            "    // DbSet properties">>
          \o FlatMap(LAMBDA entity :
               LET entityName == toPascalCase(entity.name)
                   tableName == toPlural(entityName)
               IN  <<"    public DbSet<" \o entityName \o "> " \o tableName
                     \o " { get; set; } = null!;">>,
               m.entities)
          \o <<"",
               "    protected override void OnModelCreating(ModelBuilder modelBuilder)",
               "    {",
               "        base.OnModelCreating(modelBuilder);",
               "">>
          \o FlatMap(LAMBDA entity :
               generateEntityConfiguration(entity, m.relations, m.entities) \o <<"">>,
               m.entities)
          \o generateIndexConfigurations(m.indexes, m.entities)
          \o <<"    }", "}">>)

----------------------------------------------------------------------------
(* controller-generator.ts *)

\* controllerCreate with the service called before the validity check
controllerCreateCallsFirst(entityName, entityNameCamel, pkName) ==
    <<"    /// <summary>",
      "    /// Create a new " \o entityName,
      "    /// </summary>",
      "    [HttpPost]",
      "    [ProducesResponseType(typeof(" \o entityName \o "ResponseDto), StatusCodes.Status201Created)]",
      "    [ProducesResponseType(StatusCodes.Status400BadRequest)]",
      "    public async Task<ActionResult<" \o entityName \o "ResponseDto>> Create([FromBody] Create" \o entityName \o "Dto dto)",
      "    {",
      "        var item = await _" \o entityNameCamel \o "Service.CreateAsync(dto);",
      "        if (!ModelState.IsValid)",
      "        {",
      "            return BadRequest(ModelState);",
      "        }",
      "",
      "        _logger.LogInformation(\"Created " \o entityName \o " with ID {Id}\", item." \o pkName \o ");",
      "        return CreatedAtAction(nameof(GetById), new { id = item." \o pkName \o " }, item);",
      "    }",
      "">>

\* generateEntityController: the POST action, up to the empty line after it
controllerCreate(entityName, entityNameCamel, pkName) ==
    <<"    /// <summary>",
      "    /// Create a new " \o entityName,
      "    /// </summary>",
      "    [HttpPost]",
      "    [ProducesResponseType(typeof(" \o entityName \o "ResponseDto), StatusCodes.Status201Created)]",
      "    [ProducesResponseType(StatusCodes.Status400BadRequest)]",
      "    public async Task<ActionResult<" \o entityName \o "ResponseDto>> Create([FromBody] Create" \o entityName \o "Dto dto)",
      "    {",
      "        if (!ModelState.IsValid)",
      "        {",
      "            return BadRequest(ModelState);",
      "        }",
      "",
      "        var item = await _" \o entityNameCamel \o "Service.CreateAsync(dto);",
      "        _logger.LogInformation(\"Created " \o entityName \o " with ID {Id}\", item." \o pkName \o ");",
      "        return CreatedAtAction(nameof(GetById), new { id = item." \o pkName \o " }, item);",
      "    }",
      "">>

generateEntityController(entity) ==
    LET entityName == toPascalCase(entity.name)
        entityNamePlural == toPlural(entityName)
        entityNameCamel == toCamelCase(entity.name)
        pkField == getPrimaryKeyField(entity)
        mapped == IF pkField # <<>> THEN CSHARP_TYPE_MAP(pkField[1].type) ELSE ""
        pkType == IF pkField # <<>> THEN (IF mapped # "" THEN mapped ELSE "Guid") ELSE "Guid"
        pkName == IF pkField # <<>> THEN toPascalCase(pkField[1].name) ELSE "Id"
    IN  <<"[ApiController]",
          "[Route(\"api/[controller]\")]",
          "[Produces(\"application/json\")]",
          "public class " \o entityNamePlural \o "Controller : ControllerBase",
          "{",
          "    private readonly I" \o entityName \o "Service _" \o entityNameCamel \o "Service;",
          "    private readonly ILogger<" \o entityNamePlural \o "Controller> _logger;",
          "",
          "    public " \o entityNamePlural \o "Controller(",
          "        I" \o entityName \o "Service " \o entityNameCamel \o "Service,",
          "        ILogger<" \o entityNamePlural \o "Controller> logger)",
          "    {",
          "        _" \o entityNameCamel \o "Service = " \o entityNameCamel \o "Service;",
          "        _logger = logger;",
          "    }",
          "",
          "    /// <summary>",
          "    /// Get all " \o entityNamePlural,
          "    /// </summary>",
          "    [HttpGet]",
          "    [ProducesResponseType(typeof(IEnumerable<" \o entityName \o "ResponseDto>), StatusCodes.Status200OK)]",
          "    public async Task<ActionResult<IEnumerable<" \o entityName \o "ResponseDto>>> GetAll(",
          "        [FromQuery] int page = 1,",
          "        [FromQuery] int pageSize = 20)",
          "    {",
          "        var items = await _" \o entityNameCamel \o "Service.GetAllAsync(page, pageSize);",
          "        return Ok(items);",
          "    }",
          "",
          "    /// <summary>",
          "    /// Get " \o entityName \o " by ID",
          "    /// </summary>",
          "    [HttpGet(\"{id}\")]",
          "    [ProducesResponseType(typeof(" \o entityName \o "ResponseDto), StatusCodes.Status200OK)]",
          "    [ProducesResponseType(StatusCodes.Status404NotFound)]",
          "    public async Task<ActionResult<" \o entityName \o "ResponseDto>> GetById(" \o pkType \o " id)",
          "    {",
          "        var item = await _" \o entityNameCamel \o "Service.GetByIdAsync(id);",
          "        if (item == null)",
          "        {",
          "            _logger.LogWarning(\"" \o entityName \o " with ID {Id} not found\", id);",
          "            return NotFound();",
          "        }",
          "        return Ok(item);",
          "    }",
          "">>
        \o controllerCreate(entityName, entityNameCamel, pkName)
        \o <<"    /// <summary>",
          "    /// Update an existing " \o entityName,
          "    /// </summary>",
          "    [HttpPut(\"{id}\")]",
          "    [ProducesResponseType(typeof(" \o entityName \o "ResponseDto), StatusCodes.Status200OK)]",
          "    [ProducesResponseType(StatusCodes.Status404NotFound)]",
          "    [ProducesResponseType(StatusCodes.Status400BadRequest)]",
          "    public async Task<ActionResult<" \o entityName \o "ResponseDto>> Update(" \o pkType \o " id, [FromBody] Update" \o entityName \o "Dto dto)",
          "    {",
          "        if (!ModelState.IsValid)",
          "        {",
          "            return BadRequest(ModelState);",
          "        }",
          "",
          "        var item = await _" \o entityNameCamel \o "Service.UpdateAsync(id, dto);",
          "        if (item == null)",
          "        {",
          "            _logger.LogWarning(\"" \o entityName \o " with ID {Id} not found for update\", id);",
          "            return NotFound();",
          "        }",
          "",
          "        _logger.LogInformation(\"Updated " \o entityName \o " with ID {Id}\", id);",
          "        return Ok(item);",
          "    }",
          "",
          "    /// <summary>",
          "    /// Delete a " \o entityName,
          "    /// </summary>",
          "    [HttpDelete(\"{id}\")]",
          "    [ProducesResponseType(StatusCodes.Status204NoContent)]",
          "    [ProducesResponseType(StatusCodes.Status404NotFound)]",
          "    public async Task<ActionResult> Delete(" \o pkType \o " id)",
          "    {",
          "        var success = await _" \o entityNameCamel \o "Service.DeleteAsync(id);",
          "        if (!success)",
          "        {",
          "            _logger.LogWarning(\"" \o entityName \o " with ID {Id} not found for deletion\", id);",
          "            return NotFound();",
          "        }",
          "",
          "        _logger.LogInformation(\"Deleted " \o entityName \o " with ID {Id}\", id);",
          "        return NoContent();",
          "    }",
          "}">>

\* the loop of generateControllers over model.entities, from index i
RECURSIVE controllersFrom(_, _)
controllersFrom(m, i) ==
    IF i > Len(m.entities) THEN <<>>
    ELSE generateEntityController(m.entities[i])
         \o (IF i < Len(m.entities) THEN <<"">> ELSE <<>>)
         \o controllersFrom(m, i + 1)

generateControllers(m) ==
    IF Len(m.entities) = 0
    THEN "// No entities to generate controllers for"
    ELSE LET namespace == getNamespace(m.name)
         IN  joinLines(
               <<"using Microsoft.AspNetCore.Http;",
                 "using Microsoft.AspNetCore.Mvc;",
                 "using Microsoft.Extensions.Logging;",
                 "using " \o namespace \o ".DTOs;",
                 "using " \o namespace \o ".Services;",
                 "",
                 "namespace " \o namespace \o ".Controllers;",
                 "">>
               \o controllersFrom(m, 1))

----------------------------------------------------------------------------
(* repository-generator.ts *)

generateIRepository ==
    <<"/// <summary>",
      "/// Generic repository interface",
      "/// </summary>",
      "public interface IRepository<T> where T : class",
      "{",
      "    Task<T?> GetByIdAsync<TKey>(TKey id, CancellationToken cancellationToken = default);",
      "    Task<IEnumerable<T>> GetAllAsync(CancellationToken cancellationToken = default);",
      "    Task<IEnumerable<T>> GetPagedAsync(int page, int pageSize, CancellationToken cancellationToken = default);",
      "    Task<IEnumerable<T>> FindAsync(Expression<Func<T, bool>> predicate, CancellationToken cancellationToken = default);",
      "    Task<T?> FirstOrDefaultAsync(Expression<Func<T, bool>> predicate, CancellationToken cancellationToken = default);",
      "    Task<bool> AnyAsync(Expression<Func<T, bool>> predicate, CancellationToken cancellationToken = default);",
      "    Task<int> CountAsync(CancellationToken cancellationToken = default);",
      "    Task<int> CountAsync(Expression<Func<T, bool>> predicate, CancellationToken cancellationToken = default);",
      "    Task<T> AddAsync(T entity, CancellationToken cancellationToken = default);",
      "    Task<IEnumerable<T>> AddRangeAsync(IEnumerable<T> entities, CancellationToken cancellationToken = default);",
      "    Task UpdateAsync(T entity, CancellationToken cancellationToken = default);",
      "    Task DeleteAsync(T entity, CancellationToken cancellationToken = default);",
      "    Task DeleteRangeAsync(IEnumerable<T> entities, CancellationToken cancellationToken = default);",
      "}">>

generateRepository(dbContextName) ==
    <<"/// <summary>",
      "/// Generic repository implementation",
      "/// </summary>",
      "public class Repository<T> : IRepository<T> where T : class",
      "{",
      "    protected readonly " \o dbContextName \o " _context;",
      "    protected readonly DbSet<T> _dbSet;",
      "",
      "    public Repository(" \o dbContextName \o " context)",
      "    {",
      "        _context = context;",
      "        _dbSet = context.Set<T>();",
      "    }",
      "",
      "    public virtual async Task<T?> GetByIdAsync<TKey>(TKey id, CancellationToken cancellationToken = default)",
      "    {",
      "        return await _dbSet.FindAsync(new object[] { id! }, cancellationToken);",
      "    }",
      "",
      "    public virtual async Task<IEnumerable<T>> GetAllAsync(CancellationToken cancellationToken = default)",
      "    {",
      "        return await _dbSet.ToListAsync(cancellationToken);",
      "    }",
      "",
      "    public virtual async Task<IEnumerable<T>> GetPagedAsync(int page, int pageSize, CancellationToken cancellationToken = default)",
      "    {",
      "        return await _dbSet",
      "            .Skip((page - 1) * pageSize)",
      "            .Take(pageSize)",
      "            .ToListAsync(cancellationToken);",
      "    }",
      "",
      "    public virtual async Task<IEnumerable<T>> FindAsync(Expression<Func<T, bool>> predicate, CancellationToken cancellationToken = default)",
      "    {",
      "        return await _dbSet.Where(predicate).ToListAsync(cancellationToken);",
      "    }",
      "",
      "    public virtual async Task<T?> FirstOrDefaultAsync(Expression<Func<T, bool>> predicate, CancellationToken cancellationToken = default)",
      "    {",
      "        return await _dbSet.FirstOrDefaultAsync(predicate, cancellationToken);",
      "    }",
      "",
      "    public virtual async Task<bool> AnyAsync(Expression<Func<T, bool>> predicate, CancellationToken cancellationToken = default)",
      "    {",
      "        return await _dbSet.AnyAsync(predicate, cancellationToken);",
      "    }",
      "",
      "    public virtual async Task<int> CountAsync(CancellationToken cancellationToken = default)",
      "    {",
      "        return await _dbSet.CountAsync(cancellationToken);",
      "    }",
      "",
      "    public virtual async Task<int> CountAsync(Expression<Func<T, bool>> predicate, CancellationToken cancellationToken = default)",
      "    {",
      "        return await _dbSet.CountAsync(predicate, cancellationToken);",
      "    }",
      "",
      "    public virtual async Task<T> AddAsync(T entity, CancellationToken cancellationToken = default)",
      "    {",
      "        var entry = await _dbSet.AddAsync(entity, cancellationToken);",
      "        await _context.SaveChangesAsync(cancellationToken);",
      "        return entry.Entity;",
      "    }",
      "",
      "    public virtual async Task<IEnumerable<T>> AddRangeAsync(IEnumerable<T> entities, CancellationToken cancellationToken = default)",
      "    {",
      "        await _dbSet.AddRangeAsync(entities, cancellationToken);",
      "        await _context.SaveChangesAsync(cancellationToken);",
      "        return entities;",
      "    }",
      "",
      "    public virtual async Task UpdateAsync(T entity, CancellationToken cancellationToken = default)",
      "    {",
      "        _dbSet.Update(entity);",
      "        await _context.SaveChangesAsync(cancellationToken);",
      "    }",
      "",
      "    public virtual async Task DeleteAsync(T entity, CancellationToken cancellationToken = default)",
      "    {",
      "        _dbSet.Remove(entity);",
      "        await _context.SaveChangesAsync(cancellationToken);",
      "    }",
      "",
      "    public virtual async Task DeleteRangeAsync(IEnumerable<T> entities, CancellationToken cancellationToken = default)",
      "    {",
      "        _dbSet.RemoveRange(entities);",
      "        await _context.SaveChangesAsync(cancellationToken);",
      "    }",
      "}">>

\* the primary-key C# type of the per-entity repository and service signatures
\* repositoryPkType falling back to int when the entity has no primary key
repositoryPkTypeIntFallback(entity) ==
    LET pkField == getPrimaryKeyField(entity)
        mapped == IF pkField # <<>> THEN CSHARP_TYPE_MAP(pkField[1].type) ELSE ""
    IN  IF pkField # <<>> THEN (IF mapped # "" THEN mapped ELSE "Guid") ELSE "int"

repositoryPkType(entity) ==
    LET pkField == getPrimaryKeyField(entity)
        mapped == IF pkField # <<>> THEN CSHARP_TYPE_MAP(pkField[1].type) ELSE ""
    IN  IF pkField # <<>> THEN (IF mapped # "" THEN mapped ELSE "Guid") ELSE "Guid"

generateEntityInterface(entity) ==
    LET entityName == toPascalCase(entity.name)
        pkType == repositoryPkType(entity)
    IN  <<"public interface I" \o entityName \o "Repository : IRepository<" \o entityName \o ">",
          "{",
          "    Task<" \o entityName \o "?> GetByIdAsync(" \o pkType \o " id, CancellationToken cancellationToken = default);",
          "    Task<" \o entityName \o "?> GetByIdWithRelationsAsync(" \o pkType \o " id, CancellationToken cancellationToken = default);",
          "}">>

generateEntityRepository(entity, dbContextName) ==
    LET entityName == toPascalCase(entity.name)
        pkField == getPrimaryKeyField(entity)
        pkType == repositoryPkType(entity)
        pkName == IF pkField # <<>> THEN toPascalCase(pkField[1].name) ELSE "Id"
    IN  <<"public class " \o entityName \o "Repository : Repository<" \o entityName \o ">, I" \o entityName \o "Repository",
          "{",
          "    public " \o entityName \o "Repository(" \o dbContextName \o " context) : base(context)",
          "    {",
          "    }",
          "",
          "    public async Task<" \o entityName \o "?> GetByIdAsync(" \o pkType \o " id, CancellationToken cancellationToken = default)",
          "    {",
          "        return await _dbSet.FirstOrDefaultAsync(e => e." \o pkName \o " == id, cancellationToken);",
          "    }",
          "",
          "    public async Task<" \o entityName \o "?> GetByIdWithRelationsAsync(" \o pkType \o " id, CancellationToken cancellationToken = default)",
          "    {",
          "        return await _dbSet",
          "            // Add .Include() calls for related entities here",
          "            .FirstOrDefaultAsync(e => e." \o pkName \o " == id, cancellationToken);",
          "    }",
          "}">>

generateEntityServiceInterface(entity) ==
    LET entityName == toPascalCase(entity.name)
        pkType == repositoryPkType(entity)
    IN  <<"public interface I" \o entityName \o "Service",
          "{",
          "    Task<IEnumerable<" \o entityName \o "ResponseDto>> GetAllAsync(int page = 1, int pageSize = 20);",
          "    Task<" \o entityName \o "ResponseDto?> GetByIdAsync(" \o pkType \o " id);",
          "    Task<" \o entityName \o "ResponseDto> CreateAsync(Create" \o entityName \o "Dto dto);",
          "    Task<" \o entityName \o "ResponseDto?> UpdateAsync(" \o pkType \o " id, Update" \o entityName \o "Dto dto);",
          "    Task<bool> DeleteAsync(" \o pkType \o " id);",
          "}">>

generateEntityService(entity) ==
    LET entityName == toPascalCase(entity.name)
        pkType == repositoryPkType(entity)
    IN  <<"public class " \o entityName \o "Service : I" \o entityName \o "Service",
          "{",
          "    private readonly I" \o entityName \o "Repository _repository;",
          "    private readonly IMapper _mapper;",
          "",
          "    public " \o entityName \o "Service(I" \o entityName \o "Repository repository, IMapper mapper)",
          "    {",
          "        _repository = repository;",
          "        _mapper = mapper;",
          "    }",
          "",
          "    public async Task<IEnumerable<" \o entityName \o "ResponseDto>> GetAllAsync(int page = 1, int pageSize = 20)",
          "    {",
          "        var entities = await _repository.GetPagedAsync(page, pageSize);",
          "        return _mapper.Map<IEnumerable<" \o entityName \o "ResponseDto>>(entities);",
          "    }",
          "",
          "    public async Task<" \o entityName \o "ResponseDto?> GetByIdAsync(" \o pkType \o " id)",
          "    {",
          "        var entity = await _repository.GetByIdAsync(id);",
          "        if (entity == null) return null;",
          "        return _mapper.Map<" \o entityName \o "ResponseDto>(entity);",
          "    }",
          "",
          "    public async Task<" \o entityName \o "ResponseDto> CreateAsync(Create" \o entityName \o "Dto dto)",
          "    {",
          "        var entity = _mapper.Map<" \o entityName \o ">(dto);",
          "        entity = await _repository.AddAsync(entity);",
          "        return _mapper.Map<" \o entityName \o "ResponseDto>(entity);",
          "    }",
          "",
          "    public async Task<" \o entityName \o "ResponseDto?> UpdateAsync(" \o pkType \o " id, Update" \o entityName \o "Dto dto)",
          "    {",
          "        var entity = await _repository.GetByIdAsync(id);",
          "        if (entity == null) return null;",
          "",
          "        _mapper.Map(dto, entity);",
          "        await _repository.UpdateAsync(entity);",
          "        return _mapper.Map<" \o entityName \o "ResponseDto>(entity);",
          "    }",
          "",
          "    public async Task<bool> DeleteAsync(" \o pkType \o " id)",
          "    {",
          "        var entity = await _repository.GetByIdAsync(id);",
          "        if (entity == null) return false;",
          "",
          "        await _repository.DeleteAsync(entity);",
          "        return true;",
          "    }",
          "}">>

generateRepositories(m) ==
    IF Len(m.entities) = 0
    THEN "// No entities to generate repositories for"
    ELSE LET namespace == getNamespace(m.name)
             dbContextName == toPascalCase(m.name) \o "DbContext"
         IN  joinLines(
               <<"using System;",
                 "using System.Collections.Generic;",
                 "using System.Linq;",
                 "using System.Linq.Expressions;",
                 "using System.Threading;",
                 "using System.Threading.Tasks;",
                 "using AutoMapper;",
                 "using Microsoft.EntityFrameworkCore;",
                 "using " \o namespace \o ".Data;",
                 "using " \o namespace \o ".DTOs;",
                 "using " \o namespace \o ".Entities;",
                 "",
                 "namespace " \o namespace \o ".Repositories;",
                 "",
                 "// ===========================================",
                 "// Generic Repository Interface",
                 "// ===========================================",
                 "">>
               \o generateIRepository
               \o <<"">>
               \o <<"// ===========================================",
                 "// Generic Repository Implementation",
                 "// ===========================================",
                 "">>
               \o generateRepository(dbContextName)
               \o <<"">>
               \o <<"// ===========================================",
                 "// Entity-specific Repository Interfaces",
                 "// ===========================================",
                 "">>
               \o FlatMap(LAMBDA entity : generateEntityInterface(entity) \o <<"">>,
                          m.entities)
               \o <<"// ===========================================",
                 "// Entity-specific Repository Implementations",
                 "// ===========================================",
                 "">>
               \o FlatMap(LAMBDA entity :
                            generateEntityRepository(entity, dbContextName) \o <<"">>,
                          m.entities))

generateServices(m) ==
    IF Len(m.entities) = 0
    THEN "// No entities to generate services for"
    ELSE LET namespace == getNamespace(m.name)
         IN  joinLines(
               <<"using System;",
                 "using System.Collections.Generic;",
                 "using System.Threading.Tasks;",
                 "using AutoMapper;",
                 "using " \o namespace \o ".DTOs;",
                 "using " \o namespace \o ".Entities;",
                 "using " \o namespace \o ".Repositories;",
                 "",
                 "namespace " \o namespace \o ".Services;",
                 "",
                 "// ===========================================",
                 "// Service Interfaces",
                 "// ===========================================",
                 "">>
               \o FlatMap(LAMBDA entity : generateEntityServiceInterface(entity) \o <<"">>,
                          m.entities)
               \o <<"// ===========================================",
                 "// Service Implementations",
                 "// ===========================================",
                 "">>
               \o FlatMap(LAMBDA entity : generateEntityService(entity) \o <<"">>,
                          m.entities))

----------------------------------------------------------------------------
(* openapi-generator.ts.  A JSON value is [t |-> "obj", kv |-> members in    *)
(* insertion order], [t |-> "arr", items |-> ...], [t |-> "str", s |-> ...], *)
(* [t |-> "num", n |-> ...] or [t |-> "bool", b |-> ...]; a property whose   *)
(* value is undefined is left out, as JSON.stringify leaves it out.          *)

JObj(kv) == [t |-> "obj", kv |-> kv]
JArr(items) == [t |-> "arr", items |-> items]
JStr(s) == [t |-> "str", s |-> s]
JNum(n) == [t |-> "num", n |-> n]
JBool(b) == [t |-> "bool", b |-> b]
JP(k, v) == [k |-> k, v |-> v]

\* obj[k] = v: an own key keeps its place, a new key goes last
JSet(obj, k, v) ==
    IF \E i \in 1..Len(obj.kv) : obj.kv[i].k = k
    THEN JObj([i \in 1..Len(obj.kv) |->
                 IF obj.kv[i].k = k THEN JP(k, v) ELSE obj.kv[i]])
    ELSE JObj(Append(obj.kv, JP(k, v)))

\* { ...a, ...b }
RECURSIVE JSpread(_, _)
JSpread(a, b) ==
    IF b.kv = <<>> THEN a
    ELSE JSpread(JSet(a, Head(b.kv).k, Head(b.kv).v), JObj(Tail(b.kv)))

JKeys(obj) == [i \in 1..Len(obj.kv) |-> obj.kv[i].k]

JHas(obj, k) == \E i \in 1..Len(obj.kv) : obj.kv[i].k = k

JGet(obj, k) == obj.kv[CHOOSE i \in 1..Len(obj.kv) : obj.kv[i].k = k].v

\* the quoting of a JSON string: the quote and the backslash are escaped
RECURSIVE jsonEscapeFrom(_, _, _)
jsonEscapeFrom(s, lo, hi) ==
    IF lo > hi THEN ""
    ELSE IF lo = hi
    THEN (CASE charAt(s, lo) = "\"" -> "\\\""
            [] charAt(s, lo) = "\\" -> "\\\\"
            [] charAt(s, lo) = "\n" -> "\\n"
            [] charAt(s, lo) = "\t" -> "\\t"
            [] OTHER -> charAt(s, lo))
    ELSE LET mid == (lo + hi) \div 2
         IN  jsonEscapeFrom(s, lo, mid) \o jsonEscapeFrom(s, mid + 1, hi)

\* the characters JSON.stringify escapes, among those the generators can emit
JsonEscaped == {"\"", "\\", "\n", "\t"}

jsonQuote(s) ==
    IF \A i \in 1..Len(s) : SubSeq(s, i, i) \notin JsonEscaped
    THEN "\"" \o s \o "\""
    ELSE "\"" \o jsonEscapeFrom(s, 1, Len(s)) \o "\""

\* the lines of JSON.stringify(v, null, 2) for a value that starts at indentation pad
RECURSIVE jsonLines(_, _)
jsonLines(v, pad) ==
    LET inner == pad \o "  "
        withComma(ls, more) ==
            IF more THEN [ls EXCEPT ![Len(ls)] = ls[Len(ls)] \o ","] ELSE ls
        RECURSIVE members(_)
        members(i) ==
            IF i > Len(v.kv) THEN <<>>
            ELSE LET child == jsonLines(v.kv[i].v, inner)
                     ls == <<inner \o jsonQuote(v.kv[i].k) \o ": " \o child[1]>>
                           \o Tail(child)
                 IN  withComma(ls, i < Len(v.kv)) \o members(i + 1)
        RECURSIVE elements(_)
        elements(i) ==
            IF i > Len(v.items) THEN <<>>
            ELSE LET child == jsonLines(v.items[i], inner)
                     ls == <<inner \o child[1]>> \o Tail(child)
                 IN  withComma(ls, i < Len(v.items)) \o elements(i + 1)
    IN  CASE v.t = "str" -> <<jsonQuote(v.s)>>
          [] v.t = "num" -> <<ToString(v.n)>>
          [] v.t = "bool" -> <<IF v.b THEN "true" ELSE "false">>
          [] v.t = "obj" -> IF v.kv = <<>> THEN <<"{}">>
                            ELSE <<"{">> \o members(1) \o <<pad \o "}">>
          [] v.t = "arr" -> IF v.items = <<>> THEN <<"[]">>
                            ELSE <<"[">> \o elements(1) \o <<pad \o "]">>

\* JSON.stringify(v, null, 2)
JSONstringify(v) == joinLines(jsonLines(v, ""))

\* OPENAPI_TYPE_MAP[type]: [type, format], format "" when the entry has none;
\* type "" stands for undefined (a type outside the table)
OPENAPI_TYPE_MAP(type) ==
    CASE type = "string" -> [type |-> "string", format |-> ""]
      [] type = "int" -> [type |-> "integer", format |-> "int32"]
      [] type = "long" -> [type |-> "integer", format |-> "int64"]
      [] type = "decimal" -> [type |-> "number", format |-> "decimal"]
      [] type = "double" -> [type |-> "number", format |-> "double"]
      [] type = "float" -> [type |-> "number", format |-> "float"]
      [] type = "bool" -> [type |-> "boolean", format |-> ""]
      [] type = "DateTime" -> [type |-> "string", format |-> "date-time"]
      [] type = "DateOnly" -> [type |-> "string", format |-> "date"]
      [] type = "TimeOnly" -> [type |-> "string", format |-> "time"]
      [] type = "Guid" -> [type |-> "string", format |-> "uuid"]
      [] type = "byte[]" -> [type |-> "string", format |-> "byte"]
      [] type = "json" -> [type |-> "object", format |-> ""]
      [] OTHER -> [type |-> "", format |-> ""]

getOpenAPIType(field) ==
    LET found == OPENAPI_TYPE_MAP(field.type)
        typeInfo == IF found.type # "" THEN found ELSE [type |-> "string", format |-> ""]
        c == field.constraints
    IN  JObj(<<JP("type", JStr(typeInfo.type))>>
             \o (IF typeInfo.format # "" THEN <<JP("format", JStr(typeInfo.format))>> ELSE <<>>)
             \o (IF ~c.isRequired THEN <<JP("nullable", JBool(TRUE))>> ELSE <<>>)
             \o (IF c.minLength # <<>> THEN <<JP("minLength", JNum(c.minLength[1]))>> ELSE <<>>)
             \o (IF c.maxLength # <<>> THEN <<JP("maxLength", JNum(c.maxLength[1]))>> ELSE <<>>)
             \o (IF c.regex # "" THEN <<JP("pattern", JStr(c.regex))>> ELSE <<>>)
             \o (IF c.defaultValue # "" THEN <<JP("default", JStr(c.defaultValue))>> ELSE <<>>))

\* field is <<>> (undefined) or <<the primary-key field>>
getPkOpenAPIType(field) ==
    IF field = <<>>
    THEN JObj(<<JP("type", JStr("string")), JP("format", JStr("uuid"))>>)
    ELSE LET typeInfo == OPENAPI_TYPE_MAP(field[1].type)
         IN  JObj(<<JP("type", JStr(IF typeInfo.type # "" THEN typeInfo.type ELSE "string"))>>
                  \o (IF typeInfo.format # ""
                      THEN <<JP("format", JStr(typeInfo.format))>> ELSE <<>>))

\* addFkProperties without the check that the target exists: a relation whose
\* target is missing gets a uuid property named after the target id
RECURSIVE addFkPropertiesUnchecked(_, _, _)
addFkPropertiesUnchecked(properties, relationsFrom, m) ==
    IF relationsFrom = <<>> THEN properties
    ELSE LET relation == Head(relationsFrom)
             target == getEntityById(m, relation.targetEntityId)
             next ==
                 IF relation.cardinality = "one-to-many" \/ relation.cardinality = "one-to-one"
                 THEN JSet(properties,
                           IF target # <<>> THEN toCamelCase(getForeignKeyName(target[1]))
                           ELSE toCamelCase(relation.targetEntityId) \o "Id",
                           JSet(getPkOpenAPIType(IF target # <<>>
                                                 THEN getPrimaryKeyField(target[1]) ELSE <<>>),
                                "nullable", JBool(TRUE)))
                 ELSE properties
         IN  addFkPropertiesUnchecked(next, Tail(relationsFrom), m)

\* the loop that adds a foreign-key property per outgoing to-one relation
RECURSIVE addFkProperties(_, _, _)
addFkProperties(properties, relationsFrom, m) ==
    IF relationsFrom = <<>> THEN properties
    ELSE LET relation == Head(relationsFrom)
             target == getEntityById(m, relation.targetEntityId)
             next ==
                 IF (relation.cardinality = "one-to-many" \/ relation.cardinality = "one-to-one")
                    /\ target # <<>>
                 THEN JSet(properties,
                           toCamelCase(getForeignKeyName(target[1])),
                           JSet(getPkOpenAPIType(getPrimaryKeyField(target[1])),
                                "nullable", JBool(TRUE)))
                 ELSE properties
         IN  addFkProperties(next, Tail(relationsFrom), m)

\* properties[k] = v for every pair of kvs, in order
RECURSIVE JSetAll(_, _)
JSetAll(obj, kvs) ==
    IF kvs = <<>> THEN obj ELSE JSetAll(JSet(obj, Head(kvs).k, Head(kvs).v), Tail(kvs))

\* the field loop of a component schema: Keep selects the fields, Shape is the
\* schema given to each
addFieldProperties(properties, fields, Keep(_), Shape(_)) ==
    JSetAll(properties,
            FlatMap(LAMBDA f : IF Keep(f) THEN <<JP(toCamelCase(f.name), Shape(f))>> ELSE <<>>,
                    fields))

objectSchema(required, properties) ==
    JObj(<<JP("type", JStr("object"))>>
         \o (IF Len(required) > 0
             THEN <<JP("required", JArr([i \in 1..Len(required) |-> JStr(required[i])]))>>
             ELSE <<>>)
         \o <<JP("properties", properties)>>)

generateEntitySchema(entity, m) ==
    LET fieldProps == addFieldProperties(JObj(<<>>), entity.fields,
                                         LAMBDA f : TRUE, getOpenAPIType)
        required == FlatMap(LAMBDA f :
                        IF f.constraints.isRequired \/ f.constraints.isPrimaryKey
                        THEN <<toCamelCase(f.name)>> ELSE <<>>,
                      entity.fields)
        relationsFrom == SelectSeq(m.relations, LAMBDA r : r.sourceEntityId = entity.id)
    IN  objectSchema(required, addFkProperties(fieldProps, relationsFrom, m))

generateCreateDtoSchema(entity, m) ==
    LET fieldProps == addFieldProperties(JObj(<<>>), entity.fields,
                                         LAMBDA f : ~f.constraints.isPrimaryKey,
                                         getOpenAPIType)
        required == FlatMap(LAMBDA f :
                        IF ~f.constraints.isPrimaryKey /\ f.constraints.isRequired
                        THEN <<toCamelCase(f.name)>> ELSE <<>>,
                      entity.fields)
        relationsFrom == SelectSeq(m.relations, LAMBDA r : r.sourceEntityId = entity.id)
    IN  objectSchema(required, addFkProperties(fieldProps, relationsFrom, m))

generateUpdateDtoSchema(entity, m) ==
    LET fieldProps == addFieldProperties(JObj(<<>>), entity.fields,
                                         LAMBDA f : ~f.constraints.isPrimaryKey,
                                         LAMBDA f : JSet(getOpenAPIType(f), "nullable", JBool(TRUE)))
        relationsFrom == SelectSeq(m.relations, LAMBDA r : r.sourceEntityId = entity.id)
    IN  objectSchema(<<>>, addFkProperties(fieldProps, relationsFrom, m))

jsonContent(schema) ==
    JObj(<<JP("application/json", JObj(<<JP("schema", schema)>>))>>)

schemaRef(name) == JObj(<<JP("$ref", JStr("#/components/schemas/" \o name))>>)

generateEntityPaths(entity) ==
    LET entityName == toPascalCase(entity.name)
        entityNamePlural == toPlural(entityName)
        entityNameLower == toCamelCase(entityNamePlural)
        pkSchema == getPkOpenAPIType(getPrimaryKeyField(entity))
        collectionPath == "/api/" \o entityNameLower
        itemPath == collectionPath \o "/{id}"
        response == schemaRef(entityName \o "ResponseDto")
        idParameters ==
            JArr(<<JObj(<<JP("name", JStr("id")),
                          JP("in", JStr("path")),
                          JP("required", JBool(TRUE)),
                          JP("description", JStr(entityName \o " ID")),
                          JP("schema", pkSchema)>>)>>)
        queryParameter(name, description, default) ==
            JObj(<<JP("name", JStr(name)),
                   JP("in", JStr("query")),
                   JP("required", JBool(FALSE)),
                   JP("description", JStr(description)),
                   JP("schema", JObj(<<JP("type", JStr("integer")),
                                       JP("default", JNum(default))>>))>>)
        plain(description) == JObj(<<JP("description", JStr(description))>>)
        withBody(description, schema) ==
            JObj(<<JP("description", JStr(description)), JP("content", jsonContent(schema))>>)
        body(name) ==
            JObj(<<JP("required", JBool(TRUE)), JP("content", jsonContent(schemaRef(name)))>>)
        collection ==
            JObj(<<
              JP("get", JObj(<<
                JP("tags", JArr(<<JStr(entityNamePlural)>>)),
                JP("summary", JStr("Get all " \o entityNamePlural)),
                JP("operationId", JStr("getAll" \o entityNamePlural)),
                JP("parameters", JArr(<<queryParameter("page", "Page number", 1),
                                        queryParameter("pageSize", "Page size", 20)>>)),
                JP("responses", JObj(<<
                  JP("200", withBody("Success",
                       JObj(<<JP("type", JStr("array")), JP("items", response)>>)))>>))>>)),
              JP("post", JObj(<<
                JP("tags", JArr(<<JStr(entityNamePlural)>>)),
                JP("summary", JStr("Create a new " \o entityName)),
                JP("operationId", JStr("create" \o entityName)),
                JP("requestBody", body("Create" \o entityName \o "Dto")),
                JP("responses", JObj(<<
                  JP("201", withBody("Created", response)),
                  JP("400", plain("Bad Request"))>>))>>))>>)
        item ==
            JObj(<<
              JP("get", JObj(<<
                JP("tags", JArr(<<JStr(entityNamePlural)>>)),
                JP("summary", JStr("Get " \o entityName \o " by ID")),
                JP("operationId", JStr("get" \o entityName \o "ById")),
                JP("parameters", idParameters),
                JP("responses", JObj(<<
                  JP("200", withBody("Success", response)),
                  JP("404", plain("Not Found"))>>))>>)),
              JP("put", JObj(<<
                JP("tags", JArr(<<JStr(entityNamePlural)>>)),
                JP("summary", JStr("Update " \o entityName)),
                JP("operationId", JStr("update" \o entityName)),
                JP("parameters", idParameters),
                JP("requestBody", body("Update" \o entityName \o "Dto")),
                JP("responses", JObj(<<
                  JP("200", withBody("Success", response)),
                  JP("400", plain("Bad Request")),
                  JP("404", plain("Not Found"))>>))>>)),
              JP("delete", JObj(<<
                JP("tags", JArr(<<JStr(entityNamePlural)>>)),
                JP("summary", JStr("Delete " \o entityName)),
                JP("operationId", JStr("delete" \o entityName)),
                JP("parameters", idParameters),
                JP("responses", JObj(<<
                  JP("204", plain("No Content")),
                  JP("404", plain("Not Found"))>>))>>))>>)
    IN  JSet(JSet(JObj(<<>>), collectionPath, collection), itemPath, item)

\* the loop of generateOpenAPI over model.entities: the schemas and paths objects
RECURSIVE openAPISchemas(_, _, _)
openAPISchemas(schemas, entities, m) ==
    IF entities = <<>> THEN schemas
    ELSE LET entity == Head(entities)
             entityName == toPascalCase(entity.name)
         IN  openAPISchemas(
               JSet(JSet(JSet(schemas,
                    entityName \o "ResponseDto", generateEntitySchema(entity, m)),
                    "Create" \o entityName \o "Dto", generateCreateDtoSchema(entity, m)),
                    "Update" \o entityName \o "Dto", generateUpdateDtoSchema(entity, m)),
               Tail(entities), m)

RECURSIVE openAPIPaths(_, _)
openAPIPaths(paths, entities) ==
    IF entities = <<>> THEN paths
    ELSE openAPIPaths(JSpread(paths, generateEntityPaths(Head(entities))), Tail(entities))

\* the document generateOpenAPI hands to JSON.stringify
openAPIDoc(m) ==
    IF Len(m.entities) = 0
    THEN JObj(<<JP("openapi", JStr("3.0.3")),
                JP("info", JObj(<<JP("title", JStr(m.name \o " API")),
                                  JP("description", JStr("No entities defined")),
                                  JP("version", JStr("1.0.0"))>>)),
                JP("paths", JObj(<<>>)),
                JP("components", JObj(<<JP("schemas", JObj(<<>>))>>))>>)
    ELSE JObj(<<JP("openapi", JStr("3.0.3")),
                JP("info", JObj(<<JP("title", JStr(m.name \o " API")),
                                  JP("description", JStr("API for " \o m.name \o " data model")),
                                  JP("version", JStr("1.0.0"))>>)),
                JP("servers", JArr(<<
                   JObj(<<JP("url", JStr("https://api.example.com/v1")),
                          JP("description", JStr("Production server"))>>),
                   JObj(<<JP("url", JStr("http://localhost:5000")),
                          JP("description", JStr("Development server"))>>)>>)),
                JP("paths", openAPIPaths(JObj(<<>>), m.entities)),
                JP("components",
                   JObj(<<JP("schemas", openAPISchemas(JObj(<<>>), m.entities, m))>>))>>)

generateOpenAPI(m) == JSONstringify(openAPIDoc(m))

----------------------------------------------------------------------------
(* The SQL helpers of helpers.ts and the type maps of types.ts *)

DatabaseTypes == {"sqlserver", "postgresql", "mysql", "sqlite"}

SQL_SERVER_TYPE_MAP(type) ==
    CASE type = "string" -> "NVARCHAR"
      [] type = "int" -> "INT"
      [] type = "long" -> "BIGINT"
      [] type = "decimal" -> "DECIMAL"
      [] type = "double" -> "FLOAT"
      [] type = "float" -> "REAL"
      [] type = "bool" -> "BIT"
      [] type = "DateTime" -> "DATETIME2"
      [] type = "DateOnly" -> "DATE"
      [] type = "TimeOnly" -> "TIME"
      [] type = "Guid" -> "UNIQUEIDENTIFIER"
      [] type = "byte[]" -> "VARBINARY(MAX)"
      [] type = "json" -> "NVARCHAR(MAX)"
      [] OTHER -> ""

POSTGRES_TYPE_MAP(type) ==
    CASE type = "string" -> "VARCHAR"
      [] type = "int" -> "INTEGER"
      [] type = "long" -> "BIGINT"
      [] type = "decimal" -> "NUMERIC"
      [] type = "double" -> "DOUBLE PRECISION"
      [] type = "float" -> "REAL"
      [] type = "bool" -> "BOOLEAN"
      [] type = "DateTime" -> "TIMESTAMP"
      [] type = "DateOnly" -> "DATE"
      [] type = "TimeOnly" -> "TIME"
      [] type = "Guid" -> "UUID"
      [] type = "byte[]" -> "BYTEA"
      [] type = "json" -> "JSONB"
      [] OTHER -> ""

MYSQL_TYPE_MAP(type) ==
    CASE type = "string" -> "VARCHAR"
      [] type = "int" -> "INT"
      [] type = "long" -> "BIGINT"
      [] type = "decimal" -> "DECIMAL"
      [] type = "double" -> "DOUBLE"
      [] type = "float" -> "FLOAT"
      [] type = "bool" -> "TINYINT(1)"
      [] type = "DateTime" -> "DATETIME"
      [] type = "DateOnly" -> "DATE"
      [] type = "TimeOnly" -> "TIME"
      [] type = "Guid" -> "CHAR(36)"
      [] type = "byte[]" -> "LONGBLOB"
      [] type = "json" -> "JSON"
      [] OTHER -> ""

SQLITE_TYPE_MAP(type) ==
    CASE type = "string" -> "TEXT"
      [] type = "int" -> "INTEGER"
      [] type = "long" -> "INTEGER"
      [] type = "decimal" -> "REAL"
      [] type = "double" -> "REAL"
      [] type = "float" -> "REAL"
      [] type = "bool" -> "INTEGER"
      [] type = "DateTime" -> "TEXT"
      [] type = "DateOnly" -> "TEXT"
      [] type = "TimeOnly" -> "TEXT"
      [] type = "Guid" -> "TEXT"
      [] type = "byte[]" -> "BLOB"
      [] type = "json" -> "TEXT"
      [] OTHER -> ""

\* getSqlTypeMap(dbType)[type]
getSqlTypeMap(dbType, type) ==
    CASE dbType = "postgresql" -> POSTGRES_TYPE_MAP(type)
      [] dbType = "mysql" -> MYSQL_TYPE_MAP(type)
      [] dbType = "sqlite" -> SQLITE_TYPE_MAP(type)
      [] OTHER -> SQL_SERVER_TYPE_MAP(type)

\* getSqlType without the sizing of strings and decimals: the dialect's table
\* alone
getSqlTypeFromTable(field, dbType) ==
    IF getSqlTypeMap(dbType, field.type) # "" THEN getSqlTypeMap(dbType, field.type)
    ELSE "VARCHAR(255)"

getSqlType(field, dbType) ==
    LET mapped == getSqlTypeMap(dbType, field.type)
        base == IF mapped # "" THEN mapped ELSE "VARCHAR(255)"
        c == field.constraints
        afterString ==
            IF field.type = "string"
            THEN (IF truthy(c.maxLength)
                  THEN (IF dbType = "sqlserver"
                        THEN "NVARCHAR(" \o ToString(c.maxLength[1]) \o ")"
                        ELSE IF dbType = "sqlite" THEN "TEXT"
                        ELSE "VARCHAR(" \o ToString(c.maxLength[1]) \o ")")
                  ELSE (IF dbType = "sqlserver" THEN "NVARCHAR(MAX)"
                        ELSE IF dbType = "postgresql" THEN "TEXT"
                        ELSE IF dbType = "sqlite" THEN "TEXT"
                        ELSE "TEXT"))
            ELSE base
    IN  IF field.type = "decimal"
        THEN (IF dbType = "sqlite" THEN "REAL"
              ELSE "DECIMAL(" \o ToString(orDefault(c.precision, 18)) \o ", "
                   \o ToString(orDefault(c.scale, 2)) \o ")")
        ELSE afterString

\* the index of the first occurrence of pat in s at or after i, 0 when there is none
RECURSIVE indexOfFrom(_, _, _)
indexOfFrom(s, pat, i) ==
    IF i + Len(pat) - 1 > Len(s) THEN 0
    ELSE IF slice(s, i, i + Len(pat) - 1) = pat THEN i
    ELSE indexOfFrom(s, pat, i + 1)

\* s.replace(pat, rep) with a string pattern: the first occurrence only
replaceFirst(s, pat, rep) ==
    LET i == indexOfFrom(s, pat, 1)
    IN  IF i = 0 THEN s
        ELSE slice(s, 1, i - 1) \o rep \o slice(s, i + Len(pat), Len(s))

\* getSqlColumnDefinition: the auto-generation clause, def being the
\* definition so far
sqlAutoGenerated(field, dbType, sqlType, def) ==
    IF ~field.constraints.isAutoGenerated THEN def
    ELSE IF field.type = "int" \/ field.type = "long"
    THEN (CASE dbType = "sqlserver" ->
                 replaceFirst(def, sqlType, sqlType \o " IDENTITY(1,1)")
            [] dbType = "postgresql" ->
                 IF field.type = "long"
                 THEN replaceFirst(replaceFirst(def, sqlType, "SERIAL"), "SERIAL", "BIGSERIAL")
                 ELSE replaceFirst(def, sqlType, "SERIAL")
            [] dbType = "mysql" -> def \o " AUTO_INCREMENT"
            [] dbType = "sqlite" ->
                 IF field.constraints.isPrimaryKey THEN "INTEGER PRIMARY KEY AUTOINCREMENT"
                 ELSE def
            [] OTHER -> def)
    ELSE IF field.type = "Guid"
    THEN (CASE dbType = "sqlserver" -> def \o " DEFAULT NEWID()"
            [] dbType = "postgresql" -> def \o " DEFAULT gen_random_uuid()"
            [] dbType = "mysql" -> def \o " DEFAULT (UUID())"
            [] OTHER -> def)
    ELSE def

\* getSqlColumnDefinition: the default-value clause; lower is the default value
\* in lower case
sqlDefault(field, dbType, defaultVal, lower) ==
    IF defaultVal = "" \/ field.constraints.isAutoGenerated THEN ""
    ELSE IF field.type = "string" THEN " DEFAULT '" \o defaultVal \o "'"
    ELSE IF field.type = "bool"
    THEN " DEFAULT " \o (IF lower = "true" THEN "1" ELSE "0")
    ELSE IF field.type = "DateTime"
    THEN (IF lower = "now" \/ lower = "getdate"
          THEN (CASE dbType = "sqlserver" -> " DEFAULT GETDATE()"
                  [] dbType = "postgresql" -> " DEFAULT CURRENT_TIMESTAMP"
                  [] dbType = "mysql" -> " DEFAULT CURRENT_TIMESTAMP"
                  [] dbType = "sqlite" -> " DEFAULT (datetime('now'))"
                  [] OTHER -> "")
          ELSE "")
    ELSE " DEFAULT " \o defaultVal

\* sqlTypeAndKey with the nullability taken from isRequired alone
sqlTypeAndKeyByRequired(field, dbType, sqlType) ==
    sqlType \o " "
    \o (IF field.constraints.isRequired THEN "NOT NULL" ELSE "NULL")
    \o (IF field.constraints.isPrimaryKey /\ dbType \in DatabaseTypes
        THEN " PRIMARY KEY" ELSE "")

\* getSqlColumnDefinition: type, nullability and the primary-key clause
sqlTypeAndKey(field, dbType, sqlType) ==
    sqlType \o " "
    \o (IF field.constraints.isRequired \/ field.constraints.isPrimaryKey
        THEN "NOT NULL" ELSE "NULL")
    \o (IF field.constraints.isPrimaryKey /\ dbType \in DatabaseTypes
        THEN " PRIMARY KEY" ELSE "")

sqlColumnOfType(field, dbType, sqlType) ==
    sqlAutoGenerated(field, dbType, sqlType, sqlTypeAndKey(field, dbType, sqlType))
    \o sqlDefault(field, dbType, field.constraints.defaultValue,
                  toLowerCaseStr(field.constraints.defaultValue))

getSqlColumnDefinition(field, dbType) ==
    sqlColumnOfType(field, dbType, getSqlType(field, dbType))

\* the MySQL quote character, U+0060; a TLA+ string cannot hold that character,
\* so the tilde, which no generator emits, stands for it
GraveAccent == "~"

quoteIdentifier(name, dbType) ==
    CASE dbType = "sqlserver" -> "[" \o name \o "]"
      [] dbType = "postgresql" -> "\"" \o name \o "\""
      [] dbType = "mysql" -> GraveAccent \o name \o GraveAccent
      [] dbType = "sqlite" -> "\"" \o name \o "\""
      [] OTHER -> "[" \o name \o "]"

----------------------------------------------------------------------------
(* sql-generator.ts and dto-generator.ts: their sources are not part of the  *)
(* source tree; the README documents their output features and sections 4.7  *)
(* and 4.10 of the specification describe what they emit.                    *)

\* Date.prototype.toISOString for a clock reading of ms milliseconds past the
\* epoch, ms < 1000
toISOString(ms) ==
    "1970-01-01T00:00:00."
    \o (IF ms < 10 THEN "00" ELSE IF ms < 100 THEN "0" ELSE "") \o ToString(ms) \o "Z"

\* the header of a generated SQL script: model name, database type and the
\* generation timestamp
sqlHeader(m, dbType, now) ==
    <<"-- Model: " \o m.name,
      "-- Database: " \o dbType,
      "-- Generated: " \o toISOString(now),
      "">>

\* the ON DELETE keyword of a relation
sqlOnDelete(onDelete) ==
    LET mapped == DELETE_BEHAVIOR_MAP(onDelete)
    IN  CASE mapped = "Cascade" -> "CASCADE"
          [] mapped = "Restrict" -> "RESTRICT"
          [] mapped = "SetNull" -> "SET NULL"
          [] OTHER -> "NO ACTION"

\* items.join(',\n')
RECURSIVE joinCommaLines(_, _)
joinCommaLines(items, i) ==
    IF i > Len(items) THEN <<>>
    ELSE IF i = Len(items) THEN <<items[i]>>
    ELSE <<items[i] \o ",">> \o joinCommaLines(items, i + 1)

generateSQL(m, dbType, includeDrops, now) ==
    LET q(name) == quoteIdentifier(name, dbType)
        drops == IF includeDrops
                 THEN FlatMap(LAMBDA e : <<"DROP TABLE IF EXISTS " \o q(getTableName(e)) \o ";">>,
                              m.entities) \o <<"">>
                 ELSE <<>>
        tables ==
            FlatMap(LAMBDA e :
                <<"CREATE TABLE " \o q(getTableName(e)) \o " (">>
                \o joinCommaLines(
                     [i \in 1..Len(e.fields) |->
                        "    " \o q(toPascalCase(e.fields[i].name)) \o " "
                        \o getSqlColumnDefinition(e.fields[i], dbType)], 1)
                \o <<");", "">>,
                m.entities)
        foreignKeys ==
            FlatMap(LAMBDA r :
                LET source == getEntityById(m, r.sourceEntityId)
                    target == getEntityById(m, r.targetEntityId)
                IN  IF source = <<>> \/ target = <<>> \/ r.cardinality = "many-to-many"
                    THEN <<>>
                    ELSE LET pk == getPrimaryKeyField(target[1])
                             pkName == IF pk # <<>> THEN toPascalCase(pk[1].name) ELSE "Id"
                         IN  <<"ALTER TABLE " \o q(getTableName(source[1]))
                               \o " ADD FOREIGN KEY (" \o q(getForeignKeyName(target[1]))
                               \o ") REFERENCES " \o q(getTableName(target[1]))
                               \o "(" \o q(pkName) \o ") ON DELETE "
                               \o sqlOnDelete(r.onDelete) \o ";">>,
                m.relations)
        indexes ==
            FlatMap(LAMBDA index :
                LET found == getEntityById(m, index.entityId)
                IN  IF found = <<>> THEN <<>>
                    ELSE LET columns ==
                                 FlatMap(LAMBDA fieldId :
                                     LET f == find(found[1].fields, LAMBDA x : x.id = fieldId)
                                     IN  IF f = <<>> THEN <<>>
                                         ELSE <<q(toPascalCase(f[1].name))>>,
                                     index.fieldIds)
                         IN  IF Len(columns) = 0 THEN <<>>
                             ELSE <<"CREATE " \o (IF index.isUnique THEN "UNIQUE " ELSE "")
                                    \o "INDEX " \o q(index.name) \o " ON "
                                    \o q(getTableName(found[1]))
                                    \o " (" \o joinComma(columns, 1) \o ");">>,
                m.indexes)
    IN  joinLines(sqlHeader(m, dbType, now) \o drops \o tables \o foreignKeys \o indexes)

generateSqlServerSQL(m, includeDrops, now) == generateSQL(m, "sqlserver", includeDrops, now)

generatePostgresSQL(m, includeDrops, now) == generateSQL(m, "postgresql", includeDrops, now)

generateMySQLSQL(m, includeDrops, now) == generateSQL(m, "mysql", includeDrops, now)

generateSQLiteSQL(m, includeDrops, now) == generateSQL(m, "sqlite", includeDrops, now)

\* the foreign-key properties of a DTO shape: one per outgoing to-one relation
dtoFkLines(entity, m) ==
    FlatMap(LAMBDA r :
        LET target == getEntityById(m, r.targetEntityId)
        IN  IF r.sourceEntityId # entity.id \/ target = <<>>
               \/ r.cardinality = "many-to-many"
            THEN <<>>
            ELSE LET pk == getPrimaryKeyField(target[1])
                     mapped == IF pk # <<>> THEN CSHARP_TYPE_MAP(pk[1].type) ELSE ""
                 IN  <<"    public " \o (IF mapped # "" THEN mapped ELSE "Guid") \o "? "
                       \o getForeignKeyName(target[1]) \o " { get; set; }">>,
        m.relations)

generateEntityDtos(entity, m) ==
    LET entityName == toPascalCase(entity.name)
        nonKey == SelectSeq(entity.fields, LAMBDA f : ~f.constraints.isPrimaryKey)
        property(type, f) ==
            "    public " \o type \o " " \o toPascalCase(f.name) \o " { get; set; }"
        optional(f) ==
            getCSharpType([f EXCEPT !.constraints.isRequired = FALSE,
                                    !.constraints.isPrimaryKey = FALSE])
    IN  <<"public class Create" \o entityName \o "Dto", "{">>
        \o FlatMap(LAMBDA f :
             FlatMap(LAMBDA attr : <<"    " \o attr>>, generateFieldAttributes(f))
             \o <<property(getCSharpType(f), f) \o getDefaultValueExpression(f)>>, nonKey)
        \o dtoFkLines(entity, m)
        \o <<"}", "",
             "public class Update" \o entityName \o "Dto", "{">>
        \o FlatMap(LAMBDA f : <<property(optional(f), f)>>, nonKey)
        \o dtoFkLines(entity, m)
        \o <<"}", "",
             "public class " \o entityName \o "ResponseDto", "{">>
        \o FlatMap(LAMBDA f :
             <<property(getCSharpType(f), f) \o getDefaultValueExpression(f)>>, entity.fields)
        \o dtoFkLines(entity, m)
        \o <<"}", "">>

generateDTOs(m) ==
    IF Len(m.entities) = 0
    THEN "// No entities to generate DTOs for"
    ELSE joinLines(
           <<"using System;",
             "using System.ComponentModel.DataAnnotations;",
             "",
             "namespace " \o getNamespace(m.name) \o ".DTOs;",
             "">>
           \o FlatMap(LAMBDA entity : generateEntityDtos(entity, m), m.entities))

----------------------------------------------------------------------------
(* utils.ts and useCodePreview.ts: the dispatcher *)

PreviewTabs ==
    {"entities", "dbcontext", "dtos", "controller", "repository", "services",
     "migration", "migration-postgres", "migration-mysql", "migration-sqlite", "swagger"}

SqlTabs == {"migration", "migration-postgres", "migration-mysql", "migration-sqlite"}

generateEntitiesCode(m) == generateEFCoreEntities(m)

generateDbContextCode(m) == generateDbContext(m)

generateDtosCode(m) == generateDTOs(m)

\* generateControllerCode with nothing, not a placeholder, for no entities
generateControllerCodeBare(m) ==
    IF Len(m.entities) = 0 THEN "" ELSE generateControllers(m)

generateControllerCode(m) == generateControllers(m)

generateRepositoryCode(m) == generateRepositories(m)

generateServiceCode(m) == generateServices(m)

generateMigrationCode(m, now) == generateSqlServerSQL(m, TRUE, now)

generatePostgresMigrationCode(m, now) == generatePostgresSQL(m, TRUE, now)

generateMySQLMigrationCode(m, now) == generateMySQLSQL(m, TRUE, now)

generateSQLiteMigrationCode(m, now) == generateSQLiteSQL(m, TRUE, now)

generateSwaggerCode(m) == generateOpenAPI(m)

\* useCodePreview stamping what it returns with the time of the call
useCodePreviewStamped(t, mdl, now) ==
    IF mdl = <<>> THEN "// No model loaded"
    ELSE "// Generated: " \o toISOString(now) \o "\n"
         \o (CASE t = "entities" -> generateEntitiesCode(mdl[1])
               [] t = "dbcontext" -> generateDbContextCode(mdl[1])
               [] t = "dtos" -> generateDtosCode(mdl[1])
               [] t = "controller" -> generateControllerCode(mdl[1])
               [] t = "repository" -> generateRepositoryCode(mdl[1])
               [] t = "services" -> generateServiceCode(mdl[1])
               [] t = "migration" -> generateMigrationCode(mdl[1], now)
               [] t = "migration-postgres" -> generatePostgresMigrationCode(mdl[1], now)
               [] t = "migration-mysql" -> generateMySQLMigrationCode(mdl[1], now)
               [] t = "migration-sqlite" -> generateSQLiteMigrationCode(mdl[1], now)
               [] t = "swagger" -> generateSwaggerCode(mdl[1])
               [] OTHER -> "// Unknown preview type")

\* the function useCodePreview memoises: mdl is <<>> (null) or <<a DataModel>>, now
\* is what the clock reads during the call
useCodePreview(t, mdl, now) ==
    IF mdl = <<>> THEN "// No model loaded"
    ELSE CASE t = "entities" -> generateEntitiesCode(mdl[1])
           [] t = "dbcontext" -> generateDbContextCode(mdl[1])
           [] t = "dtos" -> generateDtosCode(mdl[1])
           [] t = "controller" -> generateControllerCode(mdl[1])
           [] t = "repository" -> generateRepositoryCode(mdl[1])
           [] t = "services" -> generateServiceCode(mdl[1])
           [] t = "migration" -> generateMigrationCode(mdl[1], now)
           [] t = "migration-postgres" -> generatePostgresMigrationCode(mdl[1], now)
           [] t = "migration-mysql" -> generateMySQLMigrationCode(mdl[1], now)
           [] t = "migration-sqlite" -> generateSQLiteMigrationCode(mdl[1], now)
           [] t = "swagger" -> generateSwaggerCode(mdl[1])
           [] OTHER -> "// Unknown preview type"

----------------------------------------------------------------------------
(* The inputs: a catalogue of DataModel snapshots *)

MaxClock == 1

MaxRelations == 2

NoConstraints ==
    [isRequired |-> FALSE, isUnique |-> FALSE, isPrimaryKey |-> FALSE,
     isAutoGenerated |-> FALSE, maxLength |-> <<>>, minLength |-> <<>>,
     precision |-> <<>>, scale |-> <<>>, defaultValue |-> "", regex |-> ""]

KeyField(type) ==
    [id |-> "f1", name |-> "id", type |-> type,
     constraints |-> [NoConstraints EXCEPT !.isPrimaryKey = TRUE, !.isRequired = TRUE,
                                           !.isAutoGenerated = TRUE]]

PlainField(id, name, type, isRequired) ==
    [id |-> id, name |-> name, type |-> type,
     constraints |-> [NoConstraints EXCEPT !.isRequired = isRequired]]

Entity(id, name, tableName, fields) ==
    [id |-> id, name |-> name, tableName |-> tableName, fields |-> fields]

Relation(source, target, cardinality, onDelete) ==
    [id |-> "r-" \o source \o "-" \o target \o "-" \o cardinality,
     sourceEntityId |-> source, targetEntityId |-> target,
     cardinality |-> cardinality, onDelete |-> onDelete]

Cardinalities == {"one-to-one", "one-to-many", "many-to-many"}

\* the id of no entity of any model of the catalogue
Ghost == "e9"

User == Entity("e1", "user", "", <<KeyField("Guid"), PlainField("f2", "name", "string", TRUE)>>)

Order == Entity("e2", "order_item", "tbl_orders",
                <<KeyField("int"), PlainField("f2", "total", "decimal", FALSE)>>)

\* an order that declares its foreign key to the user itself
OrderWithFk == Entity("e2", "order", "", <<KeyField("long"), PlainField("f2", "user_id", "Guid", TRUE)>>)

\* an entity with no primary key field
Tag == Entity("e2", "tag", "", <<PlainField("f1", "label", "string", FALSE)>>)

Student == Entity("e1", "Student", "", <<KeyField("Guid")>>)

Course == Entity("e2", "Course", "", <<KeyField("string")>>)

\* two names that differ as strings and agree once PascalCased
UserA == Entity("e1", "userA", "", <<KeyField("Guid")>>)

User_a == Entity("e2", "user_a", "", <<KeyField("int")>>)

OnDeleteOf(cardinality) ==
    CASE cardinality = "one-to-many" -> "cascade"
      [] cardinality = "one-to-one" -> "restrict"
      [] OTHER -> "noAction"

AllRelations(ids) ==
    {Relation(s, t, c, OnDeleteOf(c)) : s \in ids, t \in ids, c \in Cardinalities}

\* the relation lists tried with a list of entities: none, one, and some of
\* two and three
RelationLists(one, more) ==
    LET base == Relation("e2", "e1", "one-to-many", "cascade")
    IN  {rs \in {<<>>} \cup {<<r>> : r \in one} \cup {<<base, r>> : r \in more}
                \cup {<<base, r, Relation("e1", "e2", "many-to-many", "noAction")>> : r \in more} :
           Len(rs) <= MaxRelations}

DataModel(name, entities, relations) ==
    [name |-> name, entities |-> entities, relations |-> relations, indexes |-> <<>>]

Models ==
    {DataModel("my shop", <<User, Order>>, rs) :
        rs \in RelationLists(AllRelations({"e1", "e2", Ghost}),
                             {Relation("e2", "e1", "one-to-one", "restrict"),
                              Relation("e1", "e2", "many-to-many", "noAction"),
                              Relation("e2", Ghost, "one-to-many", "cascade"),
                              Relation(Ghost, "e1", "one-to-many", "cascade"),
                              Relation("e1", "e1", "one-to-one", "restrict")})}
    \cup {DataModel("Shop", <<User, OrderWithFk>>, rs) :
            rs \in RelationLists(AllRelations({"e1", "e2"}) \cap
                                   {r \in AllRelations({"e1", "e2"}) :
                                      r.sourceEntityId = "e2" /\ r.targetEntityId = "e1"}, {})}
    \cup {DataModel("Shop", <<User, Tag>>, rs) :
            rs \in RelationLists({r \in AllRelations({"e1", "e2"}) :
                                    r.sourceEntityId = "e1" /\ r.targetEntityId = "e2"}, {})}
    \cup {DataModel("school-db", <<Student, Course>>, rs) :
            rs \in RelationLists({Relation("e1", "e2", "many-to-many", "noAction")}, {})}
    \cup {DataModel("Shop", <<UserA, User_a>>, rs) :
            rs \in RelationLists({Relation("e1", "e2", "one-to-many", "cascade")}, {})}
    \cup {DataModel("Shop", <<User>>, rs) :
            rs \in RelationLists({Relation("e1", "e1", "one-to-many", "cascade"),
                                  Relation("e1", Ghost, "one-to-one", "restrict")}, {})}
    \cup {DataModel("Empty", <<>>, rs) :
            rs \in RelationLists({Relation(Ghost, Ghost, "one-to-many", "cascade")}, {})}

----------------------------------------------------------------------------
(* The state machine: the model store, the preview container and the clock *)

\* the stores and hooks after construction
InitHooks ==
    /\ events = <<>>
    /\ added = 0
    /\ workspaces = <<>>
    /\ activeWorkspaceId = <<>>
    /\ isLoading = FALSE
    /\ created = 0
    /\ isSignedIn = FALSE
    /\ syncState = [isLoading |-> FALSE, isSynced |-> FALSE, error |-> <<>>, lastSyncAt |-> <<>>]
    /\ syncing = FALSE
    /\ seen = <<>>
    /\ attempts = 0
    /\ syncs = 0
    /\ pageWorkspaceId = <<>>
    /\ current = <<>>
    /\ isDirty = FALSE
    /\ isSavingRef = FALSE
    /\ pendingSaveRef = <<>>
    /\ lastSaveTimeRef = 0
    /\ throttleTimer = <<>>
    /\ pendingTimers = <<>>
    /\ earlyTimers = 0
    /\ inflight = <<>>
    /\ backend = <<>>
    /\ saveCall = [n |-> 0, model |-> <<>>]
    /\ handed = <<>>
    /\ saveNows = 0
    /\ localStorage = [key \in {"workspace-store", "model-store", "activity-store", "current-user-id"} |-> <<>>]
    /\ memory = [key \in {"workspace-store", "model-store"} |-> {}]
    /\ isLoaded = FALSE
    /\ userId = <<>>
    /\ hasInitializedRef = FALSE
    /\ previousUserIdRef = <<>>
    /\ sessionSeen = <<>>

\* what the memoised callback of useCodePreview computes from the store
render(mdl, t, now) == useCodePreview(t, mdl, now)

Init ==
    /\ model = <<>>
    /\ tab = "entities"
    /\ out = render(<<>>, "entities", 0)
    /\ clock = 0
    /\ call = <<>>
    /\ result = <<>>
    /\ InitHooks

\* setModel(model): loads a model into the empty store (a loaded model gives
\* way to another through clearModel); the memo of useCodePreview recomputes
\* because its dependency model changed
setModel(m) ==
    /\ model = <<>>
    /\ model' = <<m>>
    /\ out' = render(model', tab, clock)
    /\ UNCHANGED <<tab, clock, call, result, hookVars>>

\* clearModel(): removes the current model from the store
clearModel ==
    /\ model # <<>>
    /\ model' = <<>>
    /\ out' = render(model', tab, clock)
    /\ UNCHANGED <<tab, clock, call, result, hookVars>>

\* deleteRelation(relationId): a new snapshot without that relation
deleteRelation(relationId) ==
    /\ model # <<>>
    /\ \E i \in 1..Len(model[1].relations) : model[1].relations[i].id = relationId
    /\ model' = <<[model[1] EXCEPT !.relations =
                     SelectSeq(model[1].relations, LAMBDA r : r.id # relationId)]>>
    /\ out' = render(model', tab, clock)
    /\ UNCHANGED <<tab, clock, call, result, hookVars>>

\* setActiveTab(tab) of CodePreviewContainer: the memo recomputes because its
\* dependency tab changed
setActiveTab(k) ==
    /\ k # tab
    /\ tab' = k
    /\ out' = render(model, k, clock)
    /\ UNCHANGED <<model, clock, call, result, hookVars>>

\* time passes; nothing re-renders
Tick ==
    /\ clock < MaxClock
    /\ clock' = clock + 1
    /\ UNCHANGED <<model, tab, out, call, result, hookVars>>

Next ==
    \/ \E m \in Models : setModel(m)
    \/ clearModel
    \/ \E id \in {r.id : r \in AllRelations({"e1", "e2", Ghost})} : deleteRelation(id)
    \/ \E k \in PreviewTabs : setActiveTab(k)
    \/ Tick

Spec == Init /\ [][Next]_vars

----------------------------------------------------------------------------
(* The exported helpers as pure functions: a behaviour of Helpers applies one *)
(* helper to one input drawn from the bounded sets below; call holds the     *)
(* helper and its arguments, result what it returned.                        *)

MaxNameLen == 3

\* the strings of at most n characters over the letters
RECURSIVE Strings(_, _)
Strings(letters, n) ==
    IF n = 0 THEN {""}
    ELSE LET shorter == Strings(letters, n - 1)
         IN  shorter \cup {s \o c : s \in shorter, c \in letters}

\* the letters the rules of toPlural tell apart, and a capital vowel
PluralLetters == {"A", "a", "y", "s", "x", "c", "h", "f", "e"}

\* entity names with a hyphen, an underscore, a blank, a lower-case first letter
EntityNames == {"user", "Category", "order_item", "order-item", "order item", "box", "Ay"}

applyToPlural(str) ==
    /\ call = <<>>
    /\ call' = <<[op |-> "toPlural", str |-> str]>>
    /\ result' = toPlural(str)
    /\ UNCHANGED <<model, tab, out, clock, hookVars>>

applyGetTableName(entity) ==
    /\ call = <<>>
    /\ call' = <<[op |-> "getTableName", entity |-> entity]>>
    /\ result' = getTableName(entity)
    /\ UNCHANGED <<model, tab, out, clock, hookVars>>

\* the onDelete values tried: the keys of DELETE_BEHAVIOR_MAP, the spellings
\* of the backend's Relationship type, and a value of neither
OnDeleteValues ==
    {"cascade", "restrict", "setNull", "noAction",
     "CASCADE", "RESTRICT", "SET NULL", "NO ACTION",
     "set-null", "no-action", "setnull"}

\* a source entity, a target entity of the same model, and the model's entities
EntityPairs == {<<Order, User, <<User, Order>>>>, <<Student, Course, <<Student, Course>>>>}

applyGenerateEntityConfiguration(entity, relations, allEntities) ==
    /\ call = <<>>
    /\ call' = <<[op |-> "generateEntityConfiguration", entity |-> entity,
                  relations |-> relations, allEntities |-> allEntities]>>
    /\ result' = joinLines(generateEntityConfiguration(entity, relations, allEntities))
    /\ UNCHANGED <<model, tab, out, clock, hookVars>>

\* the characters of the regex constraints tried; "\\" is one backslash
RegexLetters == {"\\", "d", "+"}

\* a field of this type with this regex constraint
RegexField(type, isRequired, regex) ==
    [PlainField("f2", "code", type, isRequired) EXCEPT !.constraints.regex = regex]

applyGenerateFieldAttributes(field) ==
    /\ call = <<>>
    /\ call' = <<[op |-> "generateFieldAttributes", field |-> field]>>
    /\ result' = generateFieldAttributes(field)
    /\ UNCHANGED <<model, tab, out, clock, hookVars>>

\* the default values tried: none, the date tokens of getDefaultValueExpression
\* in several cases, a word that is no token, and a literal
DefaultValues == {"", "now", "NOW", "GetDate", "utcnow", "UtcNow", "getutcdate", "today", "0"}

\* a field of this type with these constraints
SqlField(type, isRequired, isPrimaryKey, isAutoGenerated, defaultValue) ==
    [id |-> "f1", name |-> "value", type |-> type,
     constraints |-> [NoConstraints EXCEPT !.isRequired = isRequired,
                                           !.isPrimaryKey = isPrimaryKey,
                                           !.isAutoGenerated = isAutoGenerated,
                                           !.defaultValue = defaultValue]]

applyGetSqlColumnDefinition(field, dbType) ==
    /\ call = <<>>
    /\ call' = <<[op |-> "getSqlColumnDefinition", field |-> field, dbType |-> dbType]>>
    /\ result' = getSqlColumnDefinition(field, dbType)
    /\ UNCHANGED <<model, tab, out, clock, hookVars>>

\* an entity with a key field and a second field, and a model that holds it
\* together with User, with or without a relation from it to User
SchemaEntity(keyType, keyRequired, keyPrimary, titleRequired) ==
    Entity("e2", "article", "",
           <<[id |-> "f1", name |-> "id", type |-> keyType,
              constraints |-> [NoConstraints EXCEPT !.isRequired = keyRequired,
                                                    !.isPrimaryKey = keyPrimary]],
             PlainField("f2", "title", "string", titleRequired)>>)

SchemaModel(entity, related) ==
    DataModel("Shop", <<User, entity>>,
              IF related THEN <<Relation("e2", "e1", "one-to-many", "cascade")>> ELSE <<>>)

applyGenerateEntitySchema(entity, m) ==
    /\ call = <<>>
    /\ call' = <<[op |-> "generateEntitySchema", entity |-> entity, model |-> m]>>
    /\ result' = generateEntitySchema(entity, m)
    /\ UNCHANGED <<model, tab, out, clock, hookVars>>

applyGenerateCreateDtoSchema(entity, m) ==
    /\ call = <<>>
    /\ call' = <<[op |-> "generateCreateDtoSchema", entity |-> entity, model |-> m]>>
    /\ result' = generateCreateDtoSchema(entity, m)
    /\ UNCHANGED <<model, tab, out, clock, hookVars>>

applyGenerateUpdateDtoSchema(entity, m) ==
    /\ call = <<>>
    /\ call' = <<[op |-> "generateUpdateDtoSchema", entity |-> entity, model |-> m]>>
    /\ result' = generateUpdateDtoSchema(entity, m)
    /\ UNCHANGED <<model, tab, out, clock, hookVars>>

\* the entities and models the component schemas are generated for
SchemaEntities ==
    {SchemaEntity(keyType, keyRequired, keyPrimary, titleRequired) :
       keyType \in {"Guid", "int"}, keyRequired \in BOOLEAN, keyPrimary \in BOOLEAN,
       titleRequired \in BOOLEAN}

\* the optional numeric constraints tried: unset, zero, and a value
Lengths == {<<>>, <<0>>, <<50>>}
Precisions == {<<>>, <<0>>, <<10>>}
Scales == {<<>>, <<0>>, <<4>>}

\* a field of this type with these numeric constraints
SizedField(type, maxLength, precision, scale) ==
    [id |-> "f1", name |-> "value", type |-> type,
     constraints |-> [NoConstraints EXCEPT !.maxLength = maxLength,
                                           !.precision = precision,
                                           !.scale = scale]]

applyGetSqlType(field, dbType) ==
    /\ call = <<>>
    /\ call' = <<[op |-> "getSqlType", field |-> field, dbType |-> dbType]>>
    /\ result' = getSqlType(field, dbType)
    /\ UNCHANGED <<model, tab, out, clock, hookVars>>

HelperNext ==
    \/ \E str \in Strings(PluralLetters, MaxNameLen) : applyToPlural(str)
    \/ \E name \in EntityNames : \E tableName \in {"", "tbl_orders"} :
          applyGetTableName(Entity("e1", name, tableName, <<KeyField("Guid")>>))
    \/ \E pair \in EntityPairs : \E targetId \in {pair[2].id, Ghost} :
       \E cardinality \in Cardinalities : \E onDelete \in OnDeleteValues :
       \E before \in {<<>>, <<Relation(pair[1].id, pair[2].id, "one-to-many", "cascade")>>} :
          applyGenerateEntityConfiguration(
              pair[1],
              before \o <<Relation(pair[1].id, targetId, cardinality, onDelete)>>,
              pair[3])
    \/ \E type \in {"string", "int"} : \E isRequired \in BOOLEAN :
       \E regex \in Strings(RegexLetters, MaxNameLen) :
          applyGenerateFieldAttributes(RegexField(type, isRequired, regex))
    \/ \E type \in FieldTypes : \E isRequired \in BOOLEAN : \E isPrimaryKey \in BOOLEAN :
       \E isAutoGenerated \in BOOLEAN : \E defaultValue \in DefaultValues :
       \E dbType \in DatabaseTypes :
          applyGetSqlColumnDefinition(
              SqlField(type, isRequired, isPrimaryKey, isAutoGenerated, defaultValue), dbType)
    \/ \E entity \in SchemaEntities : \E related \in BOOLEAN :
          applyGenerateEntitySchema(entity, SchemaModel(entity, related))
    \/ \E entity \in SchemaEntities : \E related \in BOOLEAN :
          applyGenerateCreateDtoSchema(entity, SchemaModel(entity, related))
    \/ \E entity \in SchemaEntities : \E related \in BOOLEAN :
          applyGenerateUpdateDtoSchema(entity, SchemaModel(entity, related))
    \/ \E type \in FieldTypes : \E maxLength \in Lengths : \E precision \in Precisions :
       \E scale \in Scales : \E dbType \in DatabaseTypes :
          applyGetSqlType(SizedField(type, maxLength, precision, scale), dbType)

Helpers == Init /\ [][HelperNext]_vars

----------------------------------------------------------------------------
(* Reading a generated text back: its lines and its blocks *)

\* the positions of the line feeds of s within lo..hi, in increasing order
RECURSIVE lineFeeds(_, _, _)
lineFeeds(s, lo, hi) ==
    IF lo > hi THEN <<>>
    ELSE IF lo = hi THEN (IF SubSeq(s, lo, lo) = "\n" THEN <<lo>> ELSE <<>>)
    ELSE LET mid == (lo + hi) \div 2
         IN  lineFeeds(s, lo, mid) \o lineFeeds(s, mid + 1, hi)

\* text.split('\n')
Lines(text) ==
    LET feeds == lineFeeds(text, 1, Len(text))
        n == Len(feeds)
    IN  [k \in 1..(n + 1) |->
           slice(text, IF k = 1 THEN 1 ELSE feeds[k - 1] + 1,
                       IF k = n + 1 THEN Len(text) ELSE feeds[k] - 1)]

contains(s, part) ==
    \E i \in 1..(Len(s) - Len(part) + 1) : SubSeq(s, i, i + Len(part) - 1) = part

\* some line of text has part in it
SomeLineHas(text, part) ==
    LET lines == Lines(text) IN \E i \in 1..Len(lines) : contains(lines[i], part)

\* the blocks of lines that open with a line Opens accepts and close with the
\* first later line equal to close, in order
Blocks(lines, Opens(_), close) ==
    LET starts == SelectSeq([i \in 1..Len(lines) |-> i], LAMBDA i : Opens(lines[i]))
    IN  [k \in 1..Len(starts) |->
           LET a == starts[k]
               b == CHOOSE j \in a..Len(lines) :
                        /\ lines[j] = close
                        /\ \A h \in a..(j - 1) : lines[h] # close
           IN  SubSeq(lines, a, b)]

\* the class of each entity in the entity generator's text
ClassBlocks(text) == Blocks(Lines(text), LAMBDA l : startsWith(l, "public class "), "}")

\* the configuration block of each entity in the DbContext generator's text
ConfigBlocks(text) ==
    Blocks(Lines(text), LAMBDA l : startsWith(l, "        modelBuilder.Entity<"), "        });")

\* the part of line after the first occurrence of before, without its last
\* Len(after) characters
between(line, before, after) ==
    slice(line, indexOfFrom(line, before, 1) + Len(before), Len(line) - Len(after))

PropertyNamed(block, name) ==
    \E i \in 1..Len(block) :
        /\ startsWith(block[i], "    public ")
        /\ contains(block[i], " " \o name \o " { get; set; }")

ToOne == {"one-to-one", "one-to-many"}

Loaded == model # <<>>

Showing(kind) == Loaded /\ tab = kind

\* m has an entity with this id
Has(m, id) == \E i \in 1..Len(m.entities) : m.entities[i].id = id

\* the entity of m with this id
EntityOf(m, id) == m.entities[CHOOSE i \in 1..Len(m.entities) : m.entities[i].id = id]

\* relation r of m has both its entities in m
Valid(m, r) == Has(m, r.sourceEntityId) /\ Has(m, r.targetEntityId)

\* the conventional foreign-key name, as the specification words it
ConventionalFk(target) == toPascalCase(target.name) \o "Id"

DeclaresFk(entity, target) ==
    \E i \in 1..Len(entity.fields) :
        \/ entity.fields[i].name = ConventionalFk(target)
        \/ toPascalCase(entity.fields[i].name) = ConventionalFk(target)

\* the relations of m that make entity synthesize a foreign-key property
Synthesizing(m, entity) ==
    {i \in 1..Len(m.relations) :
        LET r == m.relations[i]
        IN  /\ r.sourceEntityId = entity.id
            /\ r.cardinality \in ToOne
            /\ Has(m, r.targetEntityId)
            /\ ~DeclaresFk(entity, EntityOf(m, r.targetEntityId))}

NullableKeyType(target) ==
    LET pk == getPrimaryKeyField(target)
    IN  IF pk = <<>> THEN "Guid?" ELSE CSHARP_TYPE_MAP(pk[1].type) \o "?"

----------------------------------------------------------------------------
(* C1 *)

\* C1: in the entity generator's text, every outgoing one-to-one or one-to-many
\* relation of an entity E to an existing target T, E declaring no field named
\* Pascal(T.name)+"Id", gives E's class a property of that name whose type is
\* the nullable form of T's primary-key C# type, Guid? when T has no key field.
SynthesizedFkIsNullable ==
    Showing("entities") =>
        LET m == model[1]
            classes == ClassBlocks(out)
        IN  \A e \in 1..Len(m.entities) : \A i \in Synthesizing(m, m.entities[e]) :
                LET target == EntityOf(m, m.relations[i].targetEntityId)
                IN  ("    public " \o NullableKeyType(target) \o " "
                     \o ConventionalFk(target) \o " { get; set; }") \in Range(classes[e])

----------------------------------------------------------------------------
(* C2 *)

\* the names in the [ForeignKey("...")] attributes of a class, in order
ForeignKeyAttributes(class) ==
    FlatMap(LAMBDA l : IF startsWith(l, "    [ForeignKey(\"")
                       THEN <<between(l, "    [ForeignKey(\"", "\")]")>> ELSE <<>>,
            class)

\* the names in the HasForeignKey calls of a configuration block, in order
HasForeignKeyNames(config) ==
    FlatMap(LAMBDA l : IF startsWith(l, "                .HasForeignKey")
                       THEN <<between(l, "(e => e.", ")")>> ELSE <<>>,
            config)

ValidToOneFrom(m, entity) ==
    {i \in 1..Len(m.relations) :
        /\ m.relations[i].sourceEntityId = entity.id
        /\ m.relations[i].cardinality \in ToOne
        /\ Valid(m, m.relations[i])}

\* C2: for every entity, the foreign-key names of its one-to-one and
\* one-to-many relations with both entities present are the same in the
\* entity generator's text (the [ForeignKey] attributes, each naming a property
\* of the class, synthesized or declared) and in the HasForeignKey calls of
\* the DbContext generator's text, relation by relation.
FkNamesAgree ==
    Showing("dbcontext") =>
        LET m == model[1]
            classes == ClassBlocks(generateEntitiesCode(m))
            configs == ConfigBlocks(out)
        IN  \A e \in 1..Len(m.entities) :
                LET inClass == ForeignKeyAttributes(classes[e])
                IN  /\ inClass = HasForeignKeyNames(configs[e])
                    /\ Len(inClass) = Cardinality(ValidToOneFrom(m, m.entities[e]))
                    /\ \A k \in 1..Len(inClass) : PropertyNamed(classes[e], inClass[k])

\* C2 witness: the DbContext text of a model with a one-to-one or one-to-many
\* relation between two of its entities, one the source declares the key of
FkNamesAgreeWitness ==
    /\ Showing("dbcontext")
    /\ \E e \in 1..Len(model[1].entities) :
          LET entity == model[1].entities[e]
          IN  \E i \in ValidToOneFrom(model[1], entity) :
                 /\ DeclaresFk(entity, EntityOf(model[1], model[1].relations[i].targetEntityId))
                 /\ SomeLineHas(out, ".HasForeignKey")

----------------------------------------------------------------------------
(* C3 *)

NavReference(name) == "    public virtual " \o name \o "? " \o name \o " { get; set; }"

NavCollection(name) ==
    "    public virtual ICollection<" \o name \o "> " \o toPlural(name)
    \o " { get; set; } = new List<" \o name \o ">();"

\* the navigation properties of a class, in order
NavigationProperties(class) == SelectSeq(class, LAMBDA l : startsWith(l, "    public virtual "))

\* what the rule (cardinality, direction) gives entity, outgoing relations first
NavigationRule(m, entity) ==
    FlatMap(LAMBDA r :
              IF r.sourceEntityId = entity.id /\ Valid(m, r)
              THEN LET target == toPascalCase(EntityOf(m, r.targetEntityId).name)
                   IN  IF r.cardinality = "many-to-many" THEN <<NavCollection(target)>>
                       ELSE <<NavReference(target)>>
              ELSE <<>>,
            m.relations)
    \o FlatMap(LAMBDA r :
                 IF r.targetEntityId = entity.id /\ Valid(m, r)
                 THEN LET source == toPascalCase(EntityOf(m, r.sourceEntityId).name)
                      IN  IF r.cardinality = "one-to-many" THEN <<NavCollection(source)>>
                          ELSE IF r.cardinality = "one-to-one" THEN <<NavReference(source)>>
                          ELSE <<>>
                 ELSE <<>>,
               m.relations)

\* C3: in the entity generator's text the navigation properties of every class
\* are exactly those the rule gives: outgoing one-to-one or one-to-many, a
\* nullable reference to the target; outgoing many-to-many, a collection of the
\* target; incoming one-to-many, a collection of the source; incoming
\* one-to-one, a nullable reference to the source; incoming many-to-many, none.
NavigationFollowsRule ==
    Showing("entities") =>
        LET m == model[1]
            classes == ClassBlocks(out)
        IN  /\ Len(classes) = Len(m.entities)
            /\ \A e \in 1..Len(m.entities) :
                  NavigationProperties(classes[e]) = NavigationRule(m, m.entities[e])

\* C3 witness: the entity text of a model with an incoming many-to-many
\* relation and another relation between its two entities
NavigationFollowsRuleWitness ==
    /\ Showing("entities")
    /\ Len(model[1].relations) = 2
    /\ \A i \in 1..2 : Valid(model[1], model[1].relations[i])
    /\ \E i \in 1..2 : model[1].relations[i].cardinality = "many-to-many"
    /\ \E i \in 1..2 : model[1].relations[i].cardinality = "one-to-many"
    /\ SomeLineHas(out, "ICollection<")

----------------------------------------------------------------------------
(* C4 *)

\* the model of the scenario: Student, Course and one many-to-many relation
\* from Student to Course
StudentCourse(m) ==
    /\ Len(m.entities) = 2
    /\ m.entities[1].name = "Student"
    /\ m.entities[2].name = "Course"
    /\ Len(m.relations) = 1
    /\ m.relations[1].cardinality = "many-to-many"
    /\ m.relations[1].sourceEntityId = m.entities[1].id
    /\ m.relations[1].targetEntityId = m.entities[2].id

NoForeignKeyProperty(class) ==
    /\ "    // Foreign Keys" \notin Range(class)
    /\ ~PropertyNamed(class, "CourseId")
    /\ ~PropertyNamed(class, "StudentId")

\* C4 as claimed: class Student has the collection Courses and class Course
\* has the collection Students, and neither class has a foreign-key property.
StudentCourseBothNavigate ==
    (Showing("entities") /\ StudentCourse(model[1])) =>
        LET classes == ClassBlocks(out)
        IN  /\ NavCollection("Course") \in Range(classes[1])
            /\ NavCollection("Student") \in Range(classes[2])
            /\ NoForeignKeyProperty(classes[1])
            /\ NoForeignKeyProperty(classes[2])

\* C4 as amended: class Student has the collection Courses, class Course has
\* no navigation property at all, and neither class has a foreign-key property.
StudentCourseOneSided ==
    (Showing("entities") /\ StudentCourse(model[1])) =>
        LET classes == ClassBlocks(out)
        IN  /\ NavigationProperties(classes[1]) = <<NavCollection("Course")>>
            /\ NavigationProperties(classes[2]) = <<>>
            /\ NoForeignKeyProperty(classes[1])
            /\ NoForeignKeyProperty(classes[2])

\* C4 witness: the entity text of the Student and Course model
StudentCourseWitness ==
    /\ Showing("entities")
    /\ StudentCourse(model[1])
    /\ "public class Course" \in Range(Lines(out))

----------------------------------------------------------------------------
(* C5 *)

\* m without its i-th relation
WithoutRelation(m, i) ==
    [m EXCEPT !.relations = SubSeq(m.relations, 1, i - 1)
                            \o SubSeq(m.relations, i + 1, Len(m.relations))]

DanglingTarget(m) ==
    {i \in 1..Len(m.relations) : ~Has(m, m.relations[i].targetEntityId)}

\* C5: the entity generator's text for a model is, character for character,
\* its text for the model without any one relation whose target is no entity
\* of the model.
DanglingTargetLeavesNoTrace ==
    Showing("entities") =>
        \A i \in DanglingTarget(model[1]) :
            out = generateEntitiesCode(WithoutRelation(model[1], i))

\* C5 witness: the entity text of a model where an entity is the source of a
\* relation to a missing target and of a relation to a present one
DanglingTargetWitness ==
    /\ Showing("entities")
    /\ \E i \in DanglingTarget(model[1]) :
          /\ Has(model[1], model[1].relations[i].sourceEntityId)
          /\ Len(model[1].relations) = 2
    /\ "    // Navigation Properties" \in Range(Lines(out))

----------------------------------------------------------------------------
(* Reading the OpenAPI document back *)

\* the index of the first line of lines equal to line, 0 when there is none
LineIndex(lines, line) ==
    IF \E i \in 1..Len(lines) : lines[i] = line
    THEN CHOOSE i \in 1..Len(lines) : lines[i] = line /\ \A h \in 1..(i - 1) : lines[h] # line
    ELSE 0

\* a line without the comma that ends it
Uncomma(l) == IF endsWith(l, ",") THEN slice(l, 1, Len(l) - 1) ELSE l

\* the lines of the document under "paths", none when paths is {}
PathLines(lines) ==
    LET from == LineIndex(lines, "  \"paths\": {")
        to == LineIndex(lines, "  \"components\": {")
    IN  IF from = 0 THEN <<>> ELSE SubSeq(lines, from + 1, to - 1)

\* the path items of the document: the keys of paths
PathItems(lines) ==
    FlatMap(LAMBDA l : IF startsWith(l, "    \"") THEN <<between(l, "    \"", "\": {")>> ELSE <<>>,
            PathLines(lines))

\* the component schemas of the document, each from its name to its closing brace
SchemaBlocks(lines) ==
    LET from == LineIndex(lines, "    \"schemas\": {")
    IN  IF from = 0 THEN <<>>
        ELSE Blocks([i \in 1..(Len(lines) - from) |-> Uncomma(lines[from + i])],
                    LAMBDA l : startsWith(l, "      \""), "      }")

\* the names of the properties of a component schema
PropertyKeys(schema) ==
    {between(schema[i], "          \"", "\": {") :
        i \in {j \in 1..Len(schema) :
                 startsWith(schema[j], "          \"") /\ endsWith(schema[j], "\": {")}}

----------------------------------------------------------------------------
(* C6 *)

Dangling(m) == {i \in 1..Len(m.relations) : ~Valid(m, m.relations[i])}

ValidFrom(m, entity) ==
    {i \in 1..Len(m.relations) :
        m.relations[i].sourceEntityId = entity.id /\ Valid(m, m.relations[i])}

\* the relationship statements of a configuration block
Wiring(config) ==
    SelectSeq(config, LAMBDA l : startsWith(l, "            entity.HasOne(")
                                 \/ startsWith(l, "            entity.HasMany("))

FieldKeys(entity) == {toCamelCase(entity.fields[i].name) : i \in 1..Len(entity.fields)}

FkKeys(m, entity) ==
    {toCamelCase(ConventionalFk(EntityOf(m, m.relations[i].targetEntityId))) :
        i \in ValidToOneFrom(m, entity)}

\* C6: for a model with a relation whose source or target is no entity of the
\* model, every preview kind yields a text; in the DbContext text each
\* configuration block wires exactly the relations of its entity that have both
\* entities, with a HasForeignKey for the one-to-one and one-to-many among them;
\* in the OpenAPI document the properties of every component schema are fields
\* of its entity or foreign keys of relations that have both entities.
DanglingRelationsStaySilent ==
    (Loaded /\ Dangling(model[1]) # {}) =>
        LET m == model[1] IN
        /\ Len(out) > 0
        /\ tab = "dbcontext" =>
              LET configs == ConfigBlocks(out)
              IN  /\ Len(configs) = Len(m.entities)
                  /\ \A e \in 1..Len(m.entities) :
                        /\ Len(Wiring(configs[e])) = Cardinality(ValidFrom(m, m.entities[e]))
                        /\ Len(HasForeignKeyNames(configs[e]))
                             = Cardinality(ValidToOneFrom(m, m.entities[e]))
        /\ tab = "swagger" =>
              LET schemas == SchemaBlocks(Lines(out))
              IN  /\ Len(schemas) = 3 * Len(m.entities)
                  /\ \A e \in 1..Len(m.entities) : \A k \in 1..3 :
                        LET keys == PropertyKeys(schemas[3 * (e - 1) + k])
                        IN  /\ keys \subseteq FieldKeys(m.entities[e]) \cup FkKeys(m, m.entities[e])
                            /\ FkKeys(m, m.entities[e]) \subseteq keys

\* C6 witness: the OpenAPI document of a model where one entity is the source
\* of a relation with both entities and of a relation to a missing target
DanglingRelationsWitness ==
    /\ Showing("swagger")
    /\ Len(model[1].relations) = 2
    /\ \E i \in Dangling(model[1]) :
          /\ model[1].relations[i].cardinality \in ToOne
          /\ Has(model[1], model[1].relations[i].sourceEntityId)
          /\ FkKeys(model[1], EntityOf(model[1], model[1].relations[i].sourceEntityId)) # {}
    /\ Len(SchemaBlocks(Lines(out))) = 6

----------------------------------------------------------------------------
(* C7 *)

----------------------------------------------------------------------------
(* C8 *)

CountLines(lines, Test(_)) == Len(SelectSeq(lines, Test))

DistinctNames(m) ==
    /\ \A i \in 1..Len(m.entities) : m.entities[i].name # ""
    /\ \A i \in 1..Len(m.entities) : \A j \in 1..Len(m.entities) :
          i # j => m.entities[i].name # m.entities[j].name

\* C8: for a model whose relations all have both entities and whose entity
\* names are non-empty and pairwise distinct, the entity text has N classes,
\* the controller text N controllers, the DbContext text N DbSet accessors and
\* N configuration blocks, and the OpenAPI document 3N component schemas and 2N
\* path items, N being the number of entities.
OneBlockPerEntity ==
    (Loaded /\ Dangling(model[1]) = {} /\ DistinctNames(model[1])) =>
        LET n == Len(model[1].entities)
            lines == Lines(out)
        IN  /\ tab = "entities" => Len(ClassBlocks(out)) = n
            /\ tab = "controller" =>
                  CountLines(lines, LAMBDA l : startsWith(l, "public class ")
                                               /\ endsWith(l, "Controller : ControllerBase")) = n
            /\ tab = "dbcontext" =>
                  /\ CountLines(lines, LAMBDA l : startsWith(l, "    public DbSet<")) = n
                  /\ Len(ConfigBlocks(out)) = n
            /\ tab = "swagger" =>
                  /\ Len(SchemaBlocks(lines)) = 3 * n
                  /\ Len(PathItems(lines)) = 2 * n

----------------------------------------------------------------------------
(* C9 *)

Keyless(m) == {e \in 1..Len(m.entities) : \A i \in 1..Len(m.entities[e].fields) :
                                              ~m.entities[e].fields[i].constraints.isPrimaryKey}

\* the lines of the block of lines that opens with the line open
BlockOf(lines, open, close) ==
    LET blocks == Blocks(lines, LAMBDA l : l = open, close)
    IN  IF Len(blocks) = 0 THEN {} ELSE Range(blocks[1])

\* the places of the OpenAPI document where an {id} path parameter described as
\* the entity's ID begins
IdParameters(lines, name) ==
    {i \in 1..(Len(lines) - 7) :
        /\ lines[i] = "            \"name\": \"id\","
        /\ lines[i + 1] = "            \"in\": \"path\","
        /\ lines[i + 3] = "            \"description\": \"" \o name \o " ID\","}

\* C9: for an entity with no primary-key field every preview kind yields a
\* text, and the key is a Guid named Id: in its controller GetById, Update and
\* Delete take a Guid id and Create answers CreatedAtAction with item.Id; its
\* repository and its service take a Guid id; a foreign key that points at it
\* is a Guid?; the {id} parameter of its OpenAPI path is a string of format uuid.
KeylessFallsBackToGuidId ==
    (Loaded /\ Keyless(model[1]) # {}) =>
        LET m == model[1]
            lines == Lines(out)
        IN  /\ Len(out) > 0
            /\ \A e \in Keyless(m) :
                  LET name == toPascalCase(m.entities[e].name)
                      dto == name \o "ResponseDto"
                  IN  /\ tab = "controller" =>
                            LET controller ==
                                    BlockOf(lines, "public class " \o toPlural(name)
                                                   \o "Controller : ControllerBase", "}")
                            IN  /\ ("    public async Task<ActionResult<" \o dto
                                    \o ">> GetById(Guid id)") \in controller
                                /\ ("    public async Task<ActionResult<" \o dto
                                    \o ">> Update(Guid id, [FromBody] Update" \o name
                                    \o "Dto dto)") \in controller
                                /\ "    public async Task<ActionResult> Delete(Guid id)"
                                       \in controller
                                /\ "        return CreatedAtAction(nameof(GetById), new { id = item.Id }, item);"
                                       \in controller
                      /\ tab = "repository" =>
                            /\ ("    Task<" \o name \o "?> GetByIdAsync(Guid id, CancellationToken cancellationToken = default);")
                                 \in BlockOf(lines, "public interface I" \o name
                                                    \o "Repository : IRepository<" \o name \o ">", "}")
                            /\ "        return await _dbSet.FirstOrDefaultAsync(e => e.Id == id, cancellationToken);"
                                 \in BlockOf(lines, "public class " \o name \o "Repository : Repository<"
                                                    \o name \o ">, I" \o name \o "Repository", "}")
                      /\ tab = "services" =>
                            LET service == BlockOf(lines, "public interface I" \o name \o "Service", "}")
                            IN  /\ ("    Task<" \o dto \o "?> GetByIdAsync(Guid id);") \in service
                                /\ ("    Task<" \o dto \o "?> UpdateAsync(Guid id, Update" \o name
                                    \o "Dto dto);") \in service
                                /\ "    Task<bool> DeleteAsync(Guid id);" \in service
                      /\ tab = "entities" =>
                            \A s \in 1..Len(m.entities) : \A i \in Synthesizing(m, m.entities[s]) :
                                m.relations[i].targetEntityId = m.entities[e].id =>
                                    ("    public Guid? " \o name \o "Id { get; set; }")
                                        \in Range(ClassBlocks(out)[s])
                      /\ tab = "swagger" =>
                            /\ Cardinality(IdParameters(lines, name)) = 3
                            /\ \A i \in IdParameters(lines, name) :
                                  SubSeq(lines, i + 2, i + 7)
                                    = <<"            \"required\": true,",
                                        "            \"description\": \"" \o name \o " ID\",",
                                        "            \"schema\": {",
                                        "              \"type\": \"string\",",
                                        "              \"format\": \"uuid\"",
                                        "            }">>

\* C9 witness: the entity text of a model where an entity holds a foreign key
\* to an entity with no primary-key field
KeylessWitness ==
    /\ Showing("entities")
    /\ \E e \in Keyless(model[1]) : \E s \in 1..Len(model[1].entities) :
          \E i \in Synthesizing(model[1], model[1].entities[s]) :
              model[1].relations[i].targetEntityId = model[1].entities[e].id
    /\ SomeLineHas(out, "public Guid? ")

----------------------------------------------------------------------------
(* C10 *)

\* C10: whatever the preview kind and whatever the store holds, no model
\* included, the preview is a non-empty string; for a model with no entity the
\* OpenAPI kind is a JSON document whose paths and components.schemas are {}.
DispatcherTotal ==
    /\ tab \in PreviewTabs
    /\ Len(out) > 0
    /\ ~Loaded => out = "// No model loaded"
    /\ (Showing("swagger") /\ Len(model[1].entities) = 0) =>
          LET lines == Lines(out)
          IN  /\ lines[1] = "{"
              /\ lines[Len(lines)] = "}"
              /\ "  \"paths\": {}," \in Range(lines)
              /\ LineIndex(lines, "    \"schemas\": {}")
                   = LineIndex(lines, "  \"components\": {") + 1
              /\ LineIndex(lines, "  \"components\": {") > 0

\* C10 witness: the OpenAPI document of a model with no entity
DispatcherTotalWitness ==
    /\ Showing("swagger")
    /\ Len(model[1].entities) = 0
    /\ SomeLineHas(out, "\"openapi\": \"3.0.3\"")

----------------------------------------------------------------------------
(* Claims about the helpers, under the specification Helpers *)

Called(op) == call # <<>> /\ call[1].op = op

----------------------------------------------------------------------------
(* C11 *)

\* C11: getTableName returns the entity's tableName when it is set and not
\* empty, and toPlural(toPascalCase(entity.name)) otherwise.
TableNameIsPascalPlural ==
    Called("getTableName") =>
        result = IF call[1].entity.tableName # "" THEN call[1].entity.tableName
                 ELSE toPlural(toPascalCase(call[1].entity.name))

----------------------------------------------------------------------------
(* C18 *)

Vowels == {"a", "e", "i", "o", "u", "A", "E", "I", "O", "U"}

Consonant(c) == (c \in LowerLetters \/ c \in UpperLetters) /\ c \notin Vowels

\* the plural the five rules give, the first that matches
RulePlural(str) ==
    LET n == Len(str)
        ends(part) == n >= Len(part) /\ SubSeq(str, n - Len(part) + 1, n) = part
    IN  IF n >= 2 /\ ends("y") /\ Consonant(SubSeq(str, n - 1, n - 1))
        THEN SubSeq(str, 1, n - 1) \o "ies"
        ELSE IF ends("s") \/ ends("x") \/ ends("ch") \/ ends("sh") THEN str \o "es"
        ELSE IF ends("fe") THEN SubSeq(str, 1, n - 2) \o "ves"
        ELSE IF ends("f") THEN SubSeq(str, 1, n - 1) \o "ves"
        ELSE str \o "s"

\* C18: toPlural applies the first matching rule of: consonant + y gives ies
\* for the y; s, x, ch, sh get es; fe gives ves; f gives ves; otherwise s is
\* appended. The y is replaced only when a consonant precedes it.
PluralFollowsRules ==
    Called("toPlural") => result = RulePlural(call[1].str)

----------------------------------------------------------------------------
(* C12 *)

\* the delete behaviours the relationship wiring of a configuration text names
WiredDeleteBehaviors(text) ==
    LET wired == SelectSeq(Lines(text),
                   LAMBDA l : startsWith(l, "                .OnDelete(DeleteBehavior."))
    IN  [k \in 1..Len(wired) |-> between(wired[k], ".OnDelete(DeleteBehavior.", ");")]

\* the call configured one entity with one outgoing one-to-one or one-to-many
\* relation whose target is among the entities
ConfiguredSingleOwner ==
    /\ Called("generateEntityConfiguration")
    /\ Len(call[1].relations) = 1
    /\ call[1].relations[1].sourceEntityId = call[1].entity.id
    /\ call[1].relations[1].cardinality \in {"one-to-one", "one-to-many"}
    /\ \E i \in 1..Len(call[1].allEntities) :
          call[1].allEntities[i].id = call[1].relations[1].targetEntityId

\* the translation as the specification words it
ClaimedDeleteBehavior(onDelete) ==
    CASE onDelete = "cascade" -> "Cascade"
      [] onDelete = "restrict" -> "Restrict"
      [] onDelete = "set-null" -> "SetNull"
      [] onDelete = "no-action" -> "NoAction"

\* C12 as stated: for every one-to-one and one-to-many relation with both
\* endpoints present the wiring names the delete behaviour of the table
\* cascade -> Cascade, restrict -> Restrict, set-null -> SetNull,
\* no-action -> NoAction.
DeleteBehaviorByStatedTable ==
    (ConfiguredSingleOwner
       /\ call[1].relations[1].onDelete \in {"cascade", "restrict", "set-null", "no-action"}) =>
        WiredDeleteBehaviors(result) = <<ClaimedDeleteBehavior(call[1].relations[1].onDelete)>>

\* the translation by the keys the designer's relations carry
KeyedDeleteBehavior(onDelete) ==
    IF onDelete \in {"cascade", "CASCADE"} THEN "Cascade"
    ELSE IF onDelete \in {"restrict", "RESTRICT"} THEN "Restrict"
    ELSE IF onDelete \in {"setNull", "SET NULL"} THEN "SetNull"
    ELSE "NoAction"

\* C12, amended: for every one-to-one and one-to-many relation with both
\* endpoints present the wiring names exactly one delete behaviour: Cascade for
\* cascade or CASCADE, Restrict for restrict or RESTRICT, SetNull for setNull or
\* SET NULL, and NoAction for every other value, the spellings set-null and
\* no-action among them.
DeleteBehaviorByKeyedTable ==
    ConfiguredSingleOwner =>
        WiredDeleteBehaviors(result) = <<KeyedDeleteBehavior(call[1].relations[1].onDelete)>>

DeleteBehaviorWitness ==
    /\ ConfiguredSingleOwner
    /\ call[1].relations[1].onDelete = "set-null"
    /\ WiredDeleteBehaviors(result) = <<"NoAction">>

----------------------------------------------------------------------------
(* C13 *)

RegexAnnotations(attrs) == SelectSeq(attrs, LAMBDA a : startsWith(a, "[RegularExpression("))

\* C13: for a field with a regex constraint generateFieldAttributes emits one
\* RegularExpression annotation, and its pattern text is the regex value
\* character for character, backslashes included.
RegexIsVerbatim ==
    (Called("generateFieldAttributes") /\ call[1].field.constraints.regex # "") =>
        RegexAnnotations(result)
          = <<"[RegularExpression(@\"" \o call[1].field.constraints.regex \o "\")]">>

----------------------------------------------------------------------------
(* C14 *)

\* the date tokens getDefaultValueExpression recognises, in lower case
DateTokens == {"now", "getdate", "utcnow", "getutcdate"}

\* the SQL DEFAULT clause each dialect writes for the current time
CurrentTimeDefaults ==
    {" DEFAULT GETDATE()", " DEFAULT CURRENT_TIMESTAMP", " DEFAULT (datetime('now'))"}

\* C14: for a DateTime field that is not auto-generated getSqlColumnDefinition
\* emits a DEFAULT clause for exactly the default values for which
\* getDefaultValueExpression emits an initializer, which are now, getdate,
\* utcnow and getutcdate in any case, in every dialect; and for an
\* auto-generated field the column definition is the one of the same field
\* without a default value.
SqlDefaultFollowsCSharpTokens ==
    Called("getSqlColumnDefinition") =>
        LET field == call[1].field
            defaultValue == field.constraints.defaultValue
        IN  /\ (field.type = "DateTime" /\ ~field.constraints.isAutoGenerated) =>
                  /\ contains(result, " DEFAULT ") <=> getDefaultValueExpression(field) # ""
                  /\ contains(result, " DEFAULT ") <=> toLowerCaseStr(defaultValue) \in DateTokens
                  /\ contains(result, " DEFAULT ") => \E clause \in CurrentTimeDefaults :
                                                          endsWith(result, clause)
            /\ field.constraints.isAutoGenerated =>
                  /\ result = getSqlColumnDefinition(
                                 [field EXCEPT !.constraints.defaultValue = ""], call[1].dbType)
                  /\ defaultValue # "" => ~endsWith(result, " DEFAULT " \o defaultValue)

----------------------------------------------------------------------------
(* C15 *)

SchemaOps == {"generateEntitySchema", "generateCreateDtoSchema", "generateUpdateDtoSchema"}

\* the names a component schema lists as required
RequiredNames(schema) ==
    IF JHas(schema, "required")
    THEN {JGet(schema, "required").items[i].s : i \in 1..Len(JGet(schema, "required").items)}
    ELSE {}

\* the component schema has a property of this name marked nullable: true
MarkedNullable(schema, name) ==
    /\ JHas(JGet(schema, "properties"), name)
    /\ JHas(JGet(JGet(schema, "properties"), name), "nullable")
    /\ JGet(JGet(JGet(schema, "properties"), name), "nullable") = JBool(TRUE)

\* C15: in every component schema (Response, Create and Update shape) no
\* property is both listed in required and marked nullable: true, whatever
\* isRequired and isPrimaryKey are on the entity's fields.
RequiredIsNeverNullable ==
    (call # <<>> /\ call[1].op \in SchemaOps) =>
        \A name \in RequiredNames(result) : ~MarkedNullable(result, name)

----------------------------------------------------------------------------
(* C16 *)

\* the nullability and primary-key text of a column, as the specification
\* words it
NullabilityAndKey(field) ==
    (IF field.constraints.isRequired \/ field.constraints.isPrimaryKey
     THEN "NOT NULL" ELSE "NULL")
    \o (IF field.constraints.isPrimaryKey THEN " PRIMARY KEY" ELSE "")

\* an auto-generated int or long field
AutoNumber(field) == field.constraints.isAutoGenerated /\ field.type \in {"int", "long"}

SqliteRowId(field, dbType) ==
    AutoNumber(field) /\ field.constraints.isPrimaryKey /\ dbType = "sqlite"

\* C16 as stated: the column is the SQL type, then NOT NULL or NULL, then
\* PRIMARY KEY exactly when isPrimaryKey holds, in all four dialects, the only
\* exception being the auto-generated int or long primary key on SQLite, which
\* is exactly INTEGER PRIMARY KEY AUTOINCREMENT.
ColumnIsTypeNullabilityKey ==
    Called("getSqlColumnDefinition") =>
        LET field == call[1].field
            dbType == call[1].dbType
        IN  IF SqliteRowId(field, dbType)
            THEN result = "INTEGER PRIMARY KEY AUTOINCREMENT"
            ELSE /\ startsWith(result, getSqlType(field, dbType) \o " " \o NullabilityAndKey(field))
                 /\ contains(result, " PRIMARY KEY") <=> field.constraints.isPrimaryKey

\* the type text of a column: the SQL type, with IDENTITY(1,1) after it on SQL
\* Server and SERIAL or BIGSERIAL in its place on PostgreSQL when the field is
\* an auto-generated int or long
ColumnTypeText(field, dbType) ==
    IF AutoNumber(field) /\ dbType = "sqlserver"
    THEN getSqlType(field, dbType) \o " IDENTITY(1,1)"
    ELSE IF AutoNumber(field) /\ dbType = "postgresql"
    THEN (IF field.type = "long" THEN "BIGSERIAL" ELSE "SERIAL")
    ELSE getSqlType(field, dbType)

\* C16, amended: the column begins with its type text, then NOT NULL when
\* isRequired or isPrimaryKey holds and NULL otherwise, then PRIMARY KEY exactly
\* when isPrimaryKey holds, in all four dialects; the type text is the SQL type,
\* except that an auto-generated int or long has IDENTITY(1,1) after the type on
\* SQL Server and SERIAL (int) or BIGSERIAL (long) in place of the type on
\* PostgreSQL; and an auto-generated int or long primary key on SQLite is
\* exactly INTEGER PRIMARY KEY AUTOINCREMENT.
ColumnIsTypeTextNullabilityKey ==
    Called("getSqlColumnDefinition") =>
        LET field == call[1].field
            dbType == call[1].dbType
        IN  IF SqliteRowId(field, dbType)
            THEN result = "INTEGER PRIMARY KEY AUTOINCREMENT"
            ELSE /\ startsWith(result, ColumnTypeText(field, dbType) \o " " \o NullabilityAndKey(field))
                 /\ contains(result, " PRIMARY KEY") <=> field.constraints.isPrimaryKey

ColumnDefinitionWitness ==
    /\ Called("getSqlColumnDefinition")
    /\ call[1].dbType = "sqlserver"
    /\ call[1].field.type = "int"
    /\ call[1].field.constraints.isAutoGenerated
    /\ call[1].field.constraints.isPrimaryKey
    /\ ~call[1].field.constraints.isRequired
    /\ result = "INT IDENTITY(1,1) NOT NULL PRIMARY KEY"

----------------------------------------------------------------------------
(* C17 *)

\* an optional number, or the default when it is unset
NumberOr(option, default) == IF option = <<>> THEN default ELSE option[1]

\* C17: for every field type, dialect and constraint set getSqlType returns a
\* non-empty string; for a decimal field it returns DECIMAL(p, s) with the
\* field's precision and scale, 18 and 2 when unset, on SQL Server, PostgreSQL
\* and MySQL, and REAL on SQLite whatever the precision and scale.
SqlTypeIsTotalAndDecimalSized ==
    Called("getSqlType") =>
        /\ result # ""
        /\ call[1].field.type = "decimal" =>
              result = IF call[1].dbType = "sqlite" THEN "REAL"
                       ELSE "DECIMAL("
                            \o ToString(NumberOr(call[1].field.constraints.precision, 18))
                            \o ", "
                            \o ToString(NumberOr(call[1].field.constraints.scale, 2)) \o ")"

SqlTypeWitness ==
    /\ Called("getSqlType")
    /\ call[1].field.type = "decimal"
    /\ call[1].dbType = "postgresql"
    /\ call[1].field.constraints.precision = <<10>>
    /\ call[1].field.constraints.scale = <<>>
    /\ result = "DECIMAL(10, 2)"

----------------------------------------------------------------------------
(* C19 *)

\* the relationship statements of a configuration text, one per wired
\* relation, each up to the empty line that ends it
WiringBlocks(text) ==
    Blocks(Lines(text),
           LAMBDA l : startsWith(l, "            entity.HasOne(")
                      \/ startsWith(l, "            entity.HasMany("),
           "")

\* the relations of the call that leave the configured entity and whose target
\* is among the entities
WiredRelations ==
    SelectSeq(call[1].relations,
      LAMBDA r : /\ r.sourceEntityId = call[1].entity.id
                 /\ \E i \in 1..Len(call[1].allEntities) :
                       call[1].allEntities[i].id = r.targetEntityId)

\* the name of the entity of the call with this id
NameOf(id) ==
    call[1].allEntities[CHOOSE i \in 1..Len(call[1].allEntities) :
                           call[1].allEntities[i].id = id].name

\* C19: every outgoing many-to-many relation with both endpoints present is
\* wired as a collection-to-collection association (HasMany, WithMany) whose
\* join table is named by the PascalCased source name followed by the
\* PascalCased target name, and the statement names no foreign key.
ManyToManyUsesJoinTable ==
    Called("generateEntityConfiguration") =>
        LET blocks == WiringBlocks(result)
        IN  /\ Len(blocks) = Len(WiredRelations)
            /\ \A k \in 1..Len(WiredRelations) :
                  WiredRelations[k].cardinality = "many-to-many" =>
                      /\ startsWith(blocks[k][1], "            entity.HasMany(")
                      /\ startsWith(blocks[k][2], "                .WithMany(")
                      /\ ("                .UsingEntity(j => j.ToTable(\""
                            \o toPascalCase(call[1].entity.name)
                            \o toPascalCase(NameOf(WiredRelations[k].targetEntityId))
                            \o "\"));") \in Range(blocks[k])
                      /\ \A i \in 1..Len(blocks[k]) : ~contains(blocks[k][i], "ForeignKey")

ManyToManyWitness ==
    /\ Called("generateEntityConfiguration")
    /\ Len(WiredRelations) = 2
    /\ WiredRelations[2].cardinality = "many-to-many"
    /\ call[1].entity.name = "order_item"
    /\ "                .UsingEntity(j => j.ToTable(\"OrderItemUser\"));"
         \in Range(WiringBlocks(result)[2])

----------------------------------------------------------------------------
(* C20: the generated controller, run statement by statement, under Spec *)

\* the line without its indentation
RECURSIVE Unindented(_)
Unindented(line) ==
    IF startsWith(line, " ") THEN Unindented(slice(line, 2, Len(line))) ELSE line

\* the action methods of a controller class, each from its signature to the
\* brace that closes it
MethodBlocks(class) ==
    Blocks(class, LAMBDA l : startsWith(l, "    public async Task<"), "    }")

\* the action method of the class with this name
MethodNamed(class, name) ==
    SelectSeq(MethodBlocks(class), LAMBDA b : contains(b[1], " " \o name \o "("))

\* the first line after line i of the body that closes a block
RECURSIVE BlockEnd(_, _)
BlockEnd(body, i) ==
    IF i >= Len(body) THEN Len(body)
    ELSE IF Unindented(body[i + 1]) = "}" THEN i + 1
    ELSE BlockEnd(body, i + 1)

\* running the body of an action method from line i: valid is what
\* ModelState.IsValid reads, found whether the service finds the item (returns
\* it, or reports success); the outcome is the return statement reached and
\* the service methods called before it
RECURSIVE Run(_, _, _, _, _)
RunLine(body, i, line, valid, found, called) ==
    IF line \in {"if (!ModelState.IsValid)", "if (item == null)", "if (!success)"}
    THEN (IF (line = "if (!ModelState.IsValid)" /\ ~valid)
             \/ (line # "if (!ModelState.IsValid)" /\ ~found)
          THEN Run(body, i + 1, valid, found, called)
          ELSE Run(body, BlockEnd(body, i) + 1, valid, found, called))
    ELSE IF startsWith(line, "if ") THEN [response |-> "?", called |-> called]
    ELSE IF startsWith(line, "return ") THEN [response |-> line, called |-> called]
    ELSE IF contains(line, "await _") /\ contains(line, "Service.")
    THEN Run(body, i + 1, valid, found,
             Append(called, slice(line, indexOfFrom(line, "Service.", 1) + 8,
                                        indexOfFrom(line, "Async(", 1) + 4)))
    ELSE Run(body, i + 1, valid, found, called)

Run(body, i, valid, found, called) ==
    IF i > Len(body) THEN [response |-> "", called |-> called]
    ELSE RunLine(body, i, Unindented(body[i]), valid, found, called)

\* what the action method of this name of the class does
Outcome(class, name, valid, found) == Run(MethodNamed(class, name)[1], 2, valid, found, <<>>)

\* what C20 says each action method does
StatedOutcome(name, valid, found) ==
    CASE name = "GetById" ->
           [response |-> IF found THEN "return Ok(item);" ELSE "return NotFound();",
            called |-> <<"GetByIdAsync">>]
      [] name = "Create" ->
           IF valid THEN [response |-> "return CreatedAtAction(nameof(GetById)",
                          called |-> <<"CreateAsync">>]
           ELSE [response |-> "return BadRequest(", called |-> <<>>]
      [] name = "Update" ->
           IF ~valid THEN [response |-> "return BadRequest(", called |-> <<>>]
           ELSE [response |-> IF found THEN "return Ok(item);" ELSE "return NotFound();",
                 called |-> <<"UpdateAsync">>]
      [] name = "Delete" ->
           [response |-> IF found THEN "return NoContent();" ELSE "return NotFound();",
            called |-> <<"DeleteAsync">>]

ControllerBehaves(class) ==
    \A name \in {"GetById", "Create", "Update", "Delete"} :
        /\ Len(MethodNamed(class, name)) = 1
        /\ \A valid \in BOOLEAN : \A found \in BOOLEAN :
              /\ startsWith(Outcome(class, name, valid, found).response,
                            StatedOutcome(name, valid, found).response)
              /\ Outcome(class, name, valid, found).called
                   = StatedOutcome(name, valid, found).called

\* C20: in the generated controller of every entity Create and Update return
\* BadRequest without calling the service when the model state is invalid and
\* call it otherwise; GetById and Update return NotFound when the service
\* returns no item and Delete when it reports failure; Create returns
\* CreatedAtAction pointing at GetById; Delete returns NoContent on success.
ControllersCheckBeforeCalling ==
    Showing("controller") =>
        /\ Len(ClassBlocks(out)) = Len(model[1].entities)
        /\ \A k \in 1..Len(model[1].entities) : ControllerBehaves(ClassBlocks(out)[k])

ControllersWitness ==
    /\ Showing("controller")
    /\ Len(model[1].entities) = 2
    /\ Outcome(ClassBlocks(out)[2], "Update", FALSE, TRUE)
         = [response |-> "return BadRequest(ModelState);", called |-> <<>>]
    /\ Outcome(ClassBlocks(out)[2], "Delete", TRUE, FALSE)
         = [response |-> "return NotFound();", called |-> <<"DeleteAsync">>]

----------------------------------------------------------------------------
(* C26, under Spec *)

\* the relationship statements of one configuration block
WiringOf(block) ==
    Blocks(block,
           LAMBDA l : startsWith(l, "            entity.HasOne(")
                      \/ startsWith(l, "            entity.HasMany("),
           "")

\* the relations of m that leave entity and whose target is in m, in order
WiredFrom(m, entity) ==
    SelectSeq(m.relations, LAMBDA r : r.sourceEntityId = entity.id /\ Has(m, r.targetEntityId))

\* the position in m of the first entity with this id
PositionOf(m, id) ==
    CHOOSE i \in 1..Len(m.entities) :
        /\ m.entities[i].id = id
        /\ \A h \in 1..(i - 1) : m.entities[h].id # id

\* the member a wiring line names after its lambda parameter
MemberAfter(line, parameter) == between(line, parameter \o " => " \o parameter \o ".", ")")

\* the statement wires members that the classes declare: the member of its
\* first line on the source class, the member of its second line on the
\* target class
MembersDeclared(statement, sourceClass, targetClass) ==
    /\ PropertyNamed(sourceClass, MemberAfter(statement[1], "e"))
    /\ PropertyNamed(targetClass, MemberAfter(statement[2], "t"))

\* C26: every navigation property the DbContext relationship wiring references
\* is declared by the entity classes generated for the same model: for each
\* wired relation the HasOne / HasMany member exists on the source class and
\* the WithMany / WithOne member exists on the target class.
WiringNamesDeclaredMembers ==
    Showing("dbcontext") =>
        \A k \in 1..Len(model[1].entities) :
            /\ Len(WiringOf(ConfigBlocks(out)[k])) = Len(WiredFrom(model[1], model[1].entities[k]))
            /\ \A j \in 1..Len(WiredFrom(model[1], model[1].entities[k])) :
                  MembersDeclared(
                      WiringOf(ConfigBlocks(out)[k])[j],
                      ClassBlocks(generateEntitiesCode(model[1]))[k],
                      ClassBlocks(generateEntitiesCode(model[1]))
                          [PositionOf(model[1],
                                      WiredFrom(model[1], model[1].entities[k])[j].targetEntityId)])

----------------------------------------------------------------------------
(* C27, under Spec *)

\* the part of line between the first occurrence of before and the next
\* occurrence of after
Enclosed(line, before, after) ==
    slice(line, indexOfFrom(line, before, 1) + Len(before),
                indexOfFrom(line, after, indexOfFrom(line, before, 1) + Len(before)) - 1)

\* the name of the class a DbContext text declares
DeclaredContext(text) ==
    {Enclosed(l, "public class ", " : DbContext") :
       l \in {h \in Range(Lines(text)) :
                startsWith(h, "public class ") /\ endsWith(h, " : DbContext")}}

\* the context types a repository text references: the type of the _context
\* field and of the context parameter of every repository constructor
ReferencedContexts(text) ==
    {Enclosed(l, "protected readonly ", " _context;") :
       l \in {h \in Range(Lines(text)) : endsWith(h, " _context;")}}
    \cup {Enclosed(l, "Repository(", " context)") :
            l \in {h \in Range(Lines(text)) :
                     contains(h, "Repository(") /\ contains(h, " context)")}}

\* C27: the DbContext class name the repository text references (field type
\* and constructor parameter of Repository<T> and of each entity repository)
\* is the class name the DbContext text declares, for every model name.
RepositoriesNameTheDeclaredContext ==
    (Showing("repository") /\ Len(model[1].entities) > 0) =>
        /\ ReferencedContexts(out) # {}
        /\ ReferencedContexts(out) = DeclaredContext(generateDbContextCode(model[1]))

----------------------------------------------------------------------------
(* C28, under Spec *)

\* the property declarations of a class, in order
PropertyLines(class) ==
    SelectSeq(class, LAMBDA l : startsWith(l, "    public ") /\ contains(l, " { get; set; }"))

\* the start of the word of line that ends at position i
RECURSIVE WordStart(_, _)
WordStart(line, i) ==
    IF i = 0 \/ charAt(line, i) = " " THEN i + 1 ELSE WordStart(line, i - 1)

\* the name a property declaration declares: the word before its accessors
DeclaredName(line) ==
    slice(line, WordStart(line, indexOfFrom(line, " { get; set; }", 1) - 1),
                indexOfFrom(line, " { get; set; }", 1) - 1)

\* the names the class declares, in order
DeclaredNames(class) ==
    [i \in 1..Len(PropertyLines(class)) |-> DeclaredName(PropertyLines(class)[i])]

Distinct(names) == \A i \in 1..Len(names) : \A j \in 1..Len(names) : names[i] = names[j] => i = j

\* C28: within each generated entity class the property names are pairwise
\* distinct, whatever the relations, two relations from one source to one
\* target and self-relations included.
PropertyNamesAreDistinct ==
    Showing("entities") =>
        \A k \in 1..Len(ClassBlocks(out)) : Distinct(DeclaredNames(ClassBlocks(out)[k]))

----------------------------------------------------------------------------
(* The activity store (useActivityStore).  An event is [id, type, message]; *)
(* the id of the n-th event created is n, which stands for its random UUID  *)
(* and tells the order of creation.                                         *)

maxEvents == 100

\* how many events a behaviour creates
MaxAdded == 102

\* removeEvent is called with an id of 0..MaxEventId (no event has id 0)
MaxEventId == 2

\* state.events after the set() of addEvent without the cut to maxEvents
addEventUncut(evs, id, type, message) ==
    <<[id |-> id, type |-> type, message |-> message]>> \o evs

\* state.events after the set() of addEvent(type, message), id the new UUID
addEvent(evs, id, type, message) ==
    LET unshifted == <<[id |-> id, type |-> type, message |-> message]>> \o evs
    IN  IF Len(unshifted) > maxEvents
        THEN SubSeq(unshifted, 1, maxEvents)
        ELSE unshifted

\* state.events after the set() of removeEvent(eventId)
removeEvent(evs, eventId) == SelectSeq(evs, LAMBDA e : e.id # eventId)

activityAddEvent(type, message) ==
    /\ added < MaxAdded
    /\ events' = addEvent(events, added + 1, type, message)
    /\ added' = added + 1
    /\ UNCHANGED <<designerVars, workspaceVars, syncVars, autoSaveVars, sessionVars>>

activityRemoveEvent(eventId) ==
    /\ events' = removeEvent(events, eventId)
    /\ UNCHANGED <<added, designerVars, workspaceVars, syncVars, autoSaveVars, sessionVars>>

clearEvents ==
    /\ events' = <<>>
    /\ UNCHANGED <<added, designerVars, workspaceVars, syncVars, autoSaveVars, sessionVars>>

ActivityNext ==
    \/ activityAddEvent("info", "Model saved")
    \/ \E eventId \in 0..MaxEventId : activityRemoveEvent(eventId)
    \/ clearEvents

Activity == Init /\ [][ActivityNext]_vars

\* C24: after any sequence of addEvent, removeEvent and clearEvents calls the
\* list holds at most maxEvents (100) events, newest first; addEvent puts the
\* new event at index 0 and keeps the events that were there in their order,
\* all of them when there is room and all but the oldest (the last) when the
\* list is full
EventsAreCappedNewestFirst ==
    /\ [](/\ Len(events) <= maxEvents
          /\ \A i, j \in 1..Len(events) : i < j => events[i].id > events[j].id)
    /\ [][added' = added + 1 =>
            /\ events'[1].id = added'
            /\ Len(events') = (IF Len(events) = maxEvents THEN maxEvents ELSE Len(events) + 1)
            /\ SubSeq(events', 2, Len(events')) = SubSeq(events, 1, Len(events') - 1)]_vars

\* the list was full and the next addEvent dropped the first event created
EventsWitness ==
    /\ Len(events) = maxEvents
    /\ events[1].id = maxEvents + 1
    /\ events[maxEvents].id = 2

----------------------------------------------------------------------------
(* The workspace store (useWorkspaceStore) and the hook that fills it from  *)
(* the backend (useDataSync).  A workspace is [id, models, backendProjectId,*)
(* backendSchemaId], an absent optional field being <<>>.                   *)

\* how many workspace ids uuidv4() hands out in a behaviour
MaxCreated == 1

\* how many automatic syncs a behaviour starts
MaxSyncs == 2

\* the ids the backend gives to projects
ProjectIds == {"p1", "p2"}

\* what GET /projects answers: the user's projects
ProjectLists == {<<>>, <<"p1">>, <<"p2", "p1">>}

WorkspaceIds(ws) == {ws[i].id : i \in 1..Len(ws)}

\* createWorkspace(name, backendProjectId): backendProjectId is <<>> when the
\* workspace is local only, else the id of the project just created; the
\* n-th id of uuidv4() is "w" followed by n
createWorkspace(backendProjectId) ==
    /\ backendProjectId = <<>> => created < MaxCreated
    /\ LET workspaceId == IF backendProjectId = <<>>
                          THEN "w" \o ToString(created + 1)
                          ELSE backendProjectId[1]
       IN  /\ workspaces' = Append(workspaces,
                [id |-> workspaceId, models |-> <<>>,
                 backendProjectId |-> backendProjectId, backendSchemaId |-> <<>>])
           /\ activeWorkspaceId' = <<workspaceId>>
    /\ created' = IF backendProjectId = <<>> THEN created + 1 ELSE created
    /\ UNCHANGED <<isLoading, designerVars, activityVars, syncVars, autoSaveVars, sessionVars>>

\* importWorkspace(data): data is an exported workspace
importWorkspace(data) ==
    /\ created < MaxCreated
    /\ workspaces' = Append(workspaces, [data EXCEPT !.id = "w" \o ToString(created + 1)])
    /\ activeWorkspaceId' = <<"w" \o ToString(created + 1)>>
    /\ created' = created + 1
    /\ UNCHANGED <<isLoading, designerVars, activityVars, syncVars, autoSaveVars, sessionVars>>

deleteWorkspace(workspaceId) ==
    /\ workspaces' = SelectSeq(workspaces, LAMBDA w : w.id # workspaceId)
    /\ activeWorkspaceId' = IF activeWorkspaceId = <<workspaceId>>
                            THEN IF workspaces' = <<>> THEN <<>> ELSE <<workspaces'[1].id>>
                            ELSE activeWorkspaceId
    /\ UNCHANGED <<isLoading, created, designerVars, activityVars, syncVars, autoSaveVars, sessionVars>>

\* setActiveWorkspace(workspaceId), workspaceId being <<>> (null) or <<id>>
setActiveWorkspace(workspaceId) ==
    /\ activeWorkspaceId' = workspaceId
    /\ UNCHANGED <<workspaces, isLoading, created, designerVars, activityVars, syncVars, autoSaveVars, sessionVars>>

\* the workspace syncFromBackend makes of a project of the backend
mergedWorkspace(project) ==
    [id |-> project, models |-> <<>>, backendProjectId |-> <<project>>, backendSchemaId |-> <<>>]

\* useAuth() reports a signed-in user
signIn ==
    /\ ~isSignedIn
    /\ isSignedIn' = TRUE
    /\ attempts' = 0
    /\ UNCHANGED <<syncState, syncing, seen, syncs, designerVars, activityVars, workspaceVars, autoSaveVars, sessionVars>>

\* useAuth() reports no user
signOut ==
    /\ isSignedIn
    /\ isSignedIn' = FALSE
    /\ UNCHANGED <<syncState, syncing, seen, attempts, syncs, designerVars, activityVars, workspaceVars, autoSaveVars, sessionVars>>

\* the auto-sync effect, which React runs after the first render and after
\* every render that changed a dependency; when its condition holds it calls
\* syncFromBackend, which runs up to its first await
autoSync ==
    /\ LET deps == <<isSignedIn, syncState.isSynced, syncState.isLoading>>
       IN  seen # <<deps>> /\ seen' = <<deps>>
    /\ IF isSignedIn /\ ~syncState.isSynced /\ ~syncState.isLoading
       THEN /\ syncs < MaxSyncs
            /\ syncState' = [syncState EXCEPT !.isLoading = TRUE, !.error = <<>>]
            /\ isLoading' = TRUE
            /\ syncing' = TRUE
            /\ attempts' = attempts + 1
            /\ syncs' = syncs + 1
       ELSE UNCHANGED <<syncState, isLoading, syncing, attempts, syncs>>
    /\ UNCHANGED <<isSignedIn, workspaces, activeWorkspaceId, created, designerVars, activityVars, autoSaveVars, sessionVars>>

\* syncFromBackend after its awaits, the backend having answered with projects
syncSucceeds(projects) ==
    /\ syncing
    /\ syncing' = FALSE
    /\ workspaces' = [i \in 1..Len(projects) |-> mergedWorkspace(projects[i])]
    /\ syncState' = [isLoading |-> FALSE, isSynced |-> TRUE, error |-> <<>>, lastSyncAt |-> <<clock>>]
    /\ IF Len(projects) > 0
       THEN /\ events' = addEvent(events, added + 1, "success", "Synced project(s) from server")
            /\ added' = added + 1
       ELSE UNCHANGED <<events, added>>
    /\ isLoading' = FALSE
    /\ UNCHANGED <<isSignedIn, seen, attempts, syncs, activeWorkspaceId, created, designerVars, autoSaveVars, sessionVars>>

\* syncFromBackend after an await that threw
syncFails(message) ==
    /\ syncing
    /\ syncing' = FALSE
    /\ syncState' = [syncState EXCEPT !.isLoading = FALSE, !.error = <<message>>]
    /\ events' = addEvent(events, added + 1, "error", "Sync failed: " \o message)
    /\ added' = added + 1
    /\ isLoading' = FALSE
    /\ UNCHANGED <<isSignedIn, seen, attempts, syncs, workspaces, activeWorkspaceId, created, designerVars, autoSaveVars, sessionVars>>

DataSyncNext ==
    \/ \E backendProjectId \in {<<>>} \cup {<<p>> : p \in ProjectIds \ WorkspaceIds(workspaces)} :
         createWorkspace(backendProjectId)
    \/ \E i \in 1..Len(workspaces) : importWorkspace(workspaces[i])
    \/ \E workspaceId \in WorkspaceIds(workspaces) \cup {"w0"} : deleteWorkspace(workspaceId)
    \/ \E workspaceId \in {<<>>} \cup {<<id>> : id \in WorkspaceIds(workspaces)} :
         setActiveWorkspace(workspaceId)
    \/ signIn
    \/ signOut
    \/ autoSync
    \/ \E projects \in ProjectLists : syncSucceeds(projects)
    \/ syncFails("Network error")

DataSync == Init /\ [][DataSyncNext]_vars

\* the id of the first workspace of a list, none for the empty list
FirstId(ws) == IF ws = <<>> THEN <<>> ELSE <<ws[1].id>>

\* C29: activeWorkspaceId is null or the id of a workspace of the list, and
\* deleting the active workspace makes the first remaining workspace active,
\* or none when the list is left empty
ActiveWorkspaceExists ==
    /\ [](activeWorkspaceId = <<>> \/ activeWorkspaceId[1] \in WorkspaceIds(workspaces))
    /\ [][(/\ activeWorkspaceId # <<>>
           /\ activeWorkspaceId[1] \in WorkspaceIds(workspaces)
           /\ activeWorkspaceId[1] \notin WorkspaceIds(workspaces'))
          => activeWorkspaceId' = FirstId(workspaces')]_vars

\* C30: the hook starts at most one automatic sync per sign-in, and a failed
\* sync leaves the workspace list as it was, sets error and returns both
\* loading flags to false
OneAutomaticSyncPerSignIn ==
    /\ [](attempts <= 1)
    /\ [][(syncing /\ ~syncing' /\ ~syncState'.isSynced)
          => /\ workspaces' = workspaces
             /\ syncState'.error # <<>>
             /\ ~syncState'.isLoading
             /\ ~isLoading']_vars

----------------------------------------------------------------------------
(* The auto-save hook (useAutoSave) of the designer page.  A model is       *)
(* [id, updatedAt]; time is not measured: a timer fires at some later step, *)
(* timers of one delay in the order they were set, and a request settles at *)
(* some later step.  Timers are not late: while a 100 ms timer set at the   *)
(* time of lastSaveTimeRef is live, throttleMs have not passed since, and   *)
(* the throttle timer, due throttleMs after that time, does not fire.       *)

\* how many times a behaviour changes the model
MaxEdits == 3

\* how many times a behaviour calls saveNow
MaxSaveNows == 1

\* a workspace exported earlier, with one model
ExportedWorkspaces ==
    {[id |-> "x1", models |-> <<[id |-> "m1", updatedAt |-> 0]>>,
      backendProjectId |-> bp, backendSchemaId |-> <<>>] : bp \in {<<>>, <<"p1">>}}

\* getWorkspaceById(workspaceId) on a list: <<>> (undefined) or <<workspace>>
getWorkspaceById(ws, id) ==
    LET found == SelectSeq(ws, LAMBDA w : w.id = id)
    IN  IF found = <<>> THEN <<>> ELSE <<found[1]>>

\* state.workspaces after updateModelInWorkspace(workspaceId, modelId, model)
updateModelInWorkspace(ws, id, modelId, mdl) ==
    [i \in 1..Len(ws) |->
        IF ws[i].id = id
        THEN [ws[i] EXCEPT !.models =
                [k \in 1..Len(@) |-> IF @[k].id = modelId THEN mdl ELSE @[k]]]
        ELSE ws[i]]

\* state.workspaces after updateWorkspace(workspaceId, {backendSchemaId})
updateWorkspace(ws, id, backendSchemaId) ==
    [i \in 1..Len(ws) |->
        IF ws[i].id = id THEN [ws[i] EXCEPT !.backendSchemaId = <<backendSchemaId>>] ELSE ws[i]]

\* what a call of saveModel reads and writes before its first await
saveState ==
    [workspaces |-> workspaces, isDirty |-> isDirty, isSavingRef |-> isSavingRef,
     pendingSaveRef |-> pendingSaveRef, inflight |-> inflight, saveCall |-> saveCall]

\* saveModel(model) with the queueing test left out
saveModelUnqueued(st, mdl) ==
    LET called == [st EXCEPT !.saveCall = [n |-> @.n + 1, model |-> <<mdl>>]]
        workspace == getWorkspaceById(st.workspaces, pageWorkspaceId[1])
    IN  IF workspace = <<>> \/ workspace[1].backendProjectId = <<>>
        THEN [called EXCEPT
                !.workspaces = updateModelInWorkspace(@, pageWorkspaceId[1], mdl.id, mdl),
                !.isDirty = FALSE]
        ELSE [called EXCEPT
                !.isSavingRef = TRUE,
                !.inflight = Append(@, [model |-> mdl,
                                        create |-> workspace[1].backendSchemaId = <<>>])]

\* saveModel(model) up to its first await or return, from the state st
saveModel(st, mdl) ==
    LET called == [st EXCEPT !.saveCall = [n |-> @.n + 1, model |-> <<mdl>>]]
        workspace == getWorkspaceById(st.workspaces, pageWorkspaceId[1])
    IN  IF st.isSavingRef
        THEN [called EXCEPT !.pendingSaveRef = <<mdl>>]
        ELSE IF workspace = <<>> \/ workspace[1].backendProjectId = <<>>
        THEN [called EXCEPT
                !.workspaces = updateModelInWorkspace(@, pageWorkspaceId[1], mdl.id, mdl),
                !.isDirty = FALSE]
        ELSE [called EXCEPT
                !.isSavingRef = TRUE,
                !.inflight = Append(@, [model |-> mdl,
                                        create |-> workspace[1].backendSchemaId = <<>>])]

\* the state a call of saveModel leaves
saved(st) ==
    /\ workspaces' = st.workspaces
    /\ isDirty' = st.isDirty
    /\ isSavingRef' = st.isSavingRef
    /\ pendingSaveRef' = st.pendingSaveRef
    /\ inflight' = st.inflight
    /\ saveCall' = st.saveCall

\* the initialising effect of DesignerPage for a workspace of the store: it
\* loads the workspace's first model or creates a new one
openDesigner(id) ==
    /\ pageWorkspaceId = <<>>
    /\ pageWorkspaceId' = <<id>>
    /\ activeWorkspaceId' = <<id>>
    /\ LET workspace == getWorkspaceById(workspaces, id)[1]
       IN  current' = IF workspace.models # <<>>
                      THEN <<workspace.models[1]>>
                      ELSE <<[id |-> "n1", updatedAt |-> 0]>>
    /\ isDirty' = FALSE
    /\ UNCHANGED <<workspaces, isLoading, created, isSavingRef, pendingSaveRef, lastSaveTimeRef,
                   throttleTimer, pendingTimers, earlyTimers, inflight, backend, saveCall, handed, saveNows,
                   designerVars, activityVars, syncVars, sessionVars>>

\* an edit in the designer: the model store replaces the model, stamps
\* updatedAt and marks it dirty; the subscription of useAutoSave then calls
\* triggerSave, elapsed telling whether throttleMs have passed since
\* lastSaveTimeRef
editModel(elapsed) ==
    /\ pageWorkspaceId # <<>>
    /\ current[1].updatedAt < MaxEdits
    /\ lastSaveTimeRef = 0 => elapsed
    /\ (lastSaveTimeRef # 0 /\ (earlyTimers > 0 \/ throttleTimer # <<>>)) => ~elapsed
    /\ LET mdl == [current[1] EXCEPT !.updatedAt = @ + 1]
       IN  /\ current' = <<mdl>>
           /\ handed' = <<mdl>>
           /\ IF elapsed
              THEN /\ saved(saveModel([saveState EXCEPT !.isDirty = TRUE], mdl))
                   /\ UNCHANGED throttleTimer
              ELSE /\ throttleTimer' = <<mdl>>
                   /\ isDirty' = TRUE
                   /\ UNCHANGED <<workspaces, isSavingRef, pendingSaveRef, inflight, saveCall>>
    /\ UNCHANGED <<pageWorkspaceId, activeWorkspaceId, isLoading, created, lastSaveTimeRef,
                   pendingTimers, earlyTimers, backend, saveNows,
                   designerVars, activityVars, syncVars, sessionVars>>

\* the timer of triggerSave fires
throttleFires ==
    /\ throttleTimer # <<>>
    /\ earlyTimers = 0
    /\ throttleTimer' = <<>>
    /\ saved(saveModel(saveState, throttleTimer[1]))
    /\ UNCHANGED <<pageWorkspaceId, current, activeWorkspaceId, isLoading, created, lastSaveTimeRef,
                   pendingTimers, earlyTimers, backend, handed, saveNows,
                   designerVars, activityVars, syncVars, sessionVars>>

\* the oldest 100 ms timer of saveModel fires
pendingFires ==
    /\ pendingTimers # <<>>
    /\ pendingTimers' = Tail(pendingTimers)
    /\ earlyTimers' = IF earlyTimers > 0 THEN earlyTimers - 1 ELSE 0
    /\ saved(saveModel(saveState, Head(pendingTimers)))
    /\ UNCHANGED <<pageWorkspaceId, current, activeWorkspaceId, isLoading, created, lastSaveTimeRef,
                   throttleTimer, backend, handed, saveNows,
                   designerVars, activityVars, syncVars, sessionVars>>

\* saveNow(), up to the first await of saveModel
saveNow ==
    /\ pageWorkspaceId # <<>>
    /\ saveNows < MaxSaveNows
    /\ saveNows' = saveNows + 1
    /\ throttleTimer' = <<>>
    /\ lastSaveTimeRef' = 0
    /\ handed' = current
    /\ saved(saveModel(saveState, current[1]))
    /\ UNCHANGED <<pageWorkspaceId, current, activeWorkspaceId, isLoading, created,
                   pendingTimers, earlyTimers, backend,
                   designerVars, activityVars, syncVars, sessionVars>>

\* the finally block of saveModel
releaseAndSchedule(i) ==
    /\ isSavingRef' = FALSE
    /\ inflight' = SubSeq(inflight, 1, i - 1) \o SubSeq(inflight, i + 1, Len(inflight))
    /\ pendingSaveRef' = <<>>
    /\ pendingTimers' = pendingTimers \o pendingSaveRef

\* the backend answers the i-th request: saveModel after its await
requestSucceeds(i) ==
    /\ i \in 1..Len(inflight)
    /\ backend' = <<inflight[i].model>>
    /\ LET mdl == inflight[i].model
           linked == IF inflight[i].create
                     THEN updateWorkspace(workspaces, pageWorkspaceId[1], "s1")
                     ELSE workspaces
       IN  workspaces' = updateModelInWorkspace(linked, pageWorkspaceId[1], mdl.id, mdl)
    /\ isDirty' = FALSE
    /\ lastSaveTimeRef' = 1
    /\ releaseAndSchedule(i)
    /\ earlyTimers' = IF throttleTimer = <<>> THEN Len(pendingTimers') ELSE earlyTimers
    /\ UNCHANGED <<pageWorkspaceId, current, activeWorkspaceId, isLoading, created,
                   throttleTimer, saveCall, handed, saveNows,
                   designerVars, activityVars, syncVars, sessionVars>>

\* the i-th request fails: the catch block of saveModel
requestFails(i) ==
    /\ i \in 1..Len(inflight)
    /\ events' = addEvent(events, added + 1, "error", "Auto-save failed")
    /\ added' = added + 1
    /\ LET mdl == inflight[i].model
       IN  workspaces' = updateModelInWorkspace(workspaces, pageWorkspaceId[1], mdl.id, mdl)
    /\ isDirty' = FALSE
    /\ releaseAndSchedule(i)
    /\ UNCHANGED <<pageWorkspaceId, current, activeWorkspaceId, isLoading, created, lastSaveTimeRef,
                   throttleTimer, earlyTimers, backend, saveCall, handed, saveNows,
                   designerVars, syncVars, sessionVars>>

AutoSaveNext ==
    \/ \E backendProjectId \in {<<>>, <<"p1">>} :
         workspaces = <<>> /\ createWorkspace(backendProjectId)
    \/ \E data \in ExportedWorkspaces : workspaces = <<>> /\ importWorkspace(data)
    \/ \E id \in WorkspaceIds(workspaces) : openDesigner(id)
    \/ \E elapsed \in BOOLEAN : editModel(elapsed)
    \/ throttleFires
    \/ pendingFires
    \/ saveNow
    \/ \E i \in 1..Len(inflight) : requestSucceeds(i)
    \/ \E i \in 1..Len(inflight) : requestFails(i)

AutoSave == Init /\ [][AutoSaveNext]_vars

\* C21: useAutoSave never has two backend save requests in flight: the
\* in-progress flag is set exactly while a request is in flight; a save
\* requested meanwhile starts no request and becomes the one queued save,
\* replacing the save queued before; and the queued save leaves the queue only
\* in the step in which the request in flight settles, for its 100 ms timer
SavesAreSerialized ==
    /\ [](/\ Len(inflight) <= 1
          /\ isSavingRef <=> inflight # <<>>
          /\ pendingSaveRef # <<>> => inflight # <<>>)
    /\ [][(saveCall'.n > saveCall.n /\ inflight # <<>>)
          => (inflight' = inflight /\ pendingSaveRef' = saveCall'.model)]_vars
    /\ [][(pendingSaveRef # <<>> /\ pendingSaveRef' # pendingSaveRef /\ saveCall'.n = saveCall.n)
          => /\ inflight' = <<>>
             /\ pendingSaveRef' = <<>>
             /\ pendingTimers' = Append(pendingTimers, pendingSaveRef[1])]_vars

\* a save was queued behind a request in flight and replaced the save that
\* was queued before it
SavesAreSerializedWitness ==
    /\ Len(inflight) = 1
    /\ pendingSaveRef # <<>>
    /\ pendingSaveRef[1].updatedAt > inflight[1].model.updatedAt + 1

\* the models of the workspace the designer page has open
StoredModels ==
    IF pageWorkspaceId = <<>> \/ getWorkspaceById(workspaces, pageWorkspaceId[1]) = <<>>
    THEN {}
    ELSE Range(getWorkspaceById(workspaces, pageWorkspaceId[1])[1].models)

\* the step in which the request in flight settles without the marks of a
\* success (the backend holding its model, the time of the save taken)
SaveFailed ==
    /\ inflight # <<>>
    /\ inflight' = <<>>
    /\ ~(backend' = <<inflight[1].model>> /\ lastSaveTimeRef' = 1)

\* C22: when the backend request of an auto-save fails, the model being saved
\* is in the workspace store afterwards, an error event is recorded, the
\* in-progress flag is released and a save queued during the request has its
\* timer set
FailedSaveFallsBackAndReleases ==
    [][SaveFailed =>
        /\ inflight[1].model \in StoredModels'
        /\ Len(events') = Len(events) + 1
        /\ events'[1].type = "error"
        /\ ~isSavingRef'
        /\ pendingSaveRef # <<>> =>
             pendingTimers' = Append(pendingTimers, pendingSaveRef[1])]_vars

\* no request in flight and no timer pending
Quiescent == inflight = <<>> /\ pendingTimers = <<>> /\ throttleTimer = <<>>

\* C25: auto-save is last-write-wins: once no save is in flight and no timer
\* is pending, the workspace store holds the model handed over last (where it
\* holds that model at all) and the backend, once written, holds it too
\* unless a request failed since; and neither the backend nor the workspace
\* store is ever written with a model older than the one it holds
LastWriteWins ==
    /\ [](Quiescent /\ handed # <<>> =>
            /\ \A m \in StoredModels : m.id = handed[1].id => m = handed[1]
            /\ (backend # <<>> /\ events = <<>>) => backend = handed)
    /\ [][(backend # <<>> /\ backend' # <<>>) =>
            backend'[1].updatedAt >= backend[1].updatedAt]_vars
    /\ [][\A m \in StoredModels : \A n \in StoredModels' :
            m.id = n.id => n.updatedAt >= m.updatedAt]_vars

----------------------------------------------------------------------------
(* The session hook (useUserSession) over localStorage.  The value of a     *)
(* persisted store is known by the users whose data it holds: the zustand   *)
(* persist middleware writes the whole in-memory state of a store under its *)
(* key on every change, and fills the store from the key on page load.      *)

Users == {"u1", "u2"}

\* the keys the persist middleware writes: workspace-store (part_021) and
\* model-store; the activity store has no persist middleware
PersistedStores == {"workspace-store", "model-store"}

\* clearUserData() on a localStorage
clearUserData(ls) ==
    [key \in DOMAIN ls |-> <<>>]

\* setStoredUserId(userId) on a localStorage
setStoredUserId(ls, id) == [ls EXCEPT !["current-user-id"] = <<id>>]

\* useAuth() reports: the session is loaded, with a user or none
authReports(user) ==
    /\ ~isLoaded \/ user # userId
    /\ isLoaded' = TRUE
    /\ userId' = user
    /\ UNCHANGED <<localStorage, memory, hasInitializedRef, previousUserIdRef, sessionSeen,
                   designerVars, activityVars, workspaceVars, syncVars, autoSaveVars>>

\* the effect of useUserSession, which React runs after the first render and
\* after every render that changed userId or isLoaded
userSessionEffect ==
    /\ sessionSeen # <<<<userId, isLoaded>>>>
    /\ sessionSeen' = <<<<userId, isLoaded>>>>
    /\ LET storedUserId == localStorage["current-user-id"]
           currentUserId == userId
       IN  IF ~isLoaded
           THEN UNCHANGED <<localStorage, hasInitializedRef, previousUserIdRef>>
           ELSE IF ~hasInitializedRef
           THEN /\ hasInitializedRef' = TRUE
                /\ localStorage' =
                     IF currentUserId # <<>>
                     THEN setStoredUserId(
                            IF storedUserId # <<>> /\ storedUserId # currentUserId
                            THEN clearUserData(localStorage)
                            ELSE localStorage,
                            currentUserId[1])
                     ELSE IF storedUserId # <<>>
                          THEN clearUserData(localStorage)
                          ELSE localStorage
                /\ previousUserIdRef' = currentUserId
           ELSE IF previousUserIdRef # currentUserId
           THEN /\ localStorage' =
                     IF currentUserId = <<>>
                     THEN clearUserData(localStorage)
                     ELSE IF previousUserIdRef # <<>>
                     THEN setStoredUserId(clearUserData(localStorage), currentUserId[1])
                     ELSE setStoredUserId(
                            IF storedUserId # <<>> /\ storedUserId # currentUserId
                            THEN clearUserData(localStorage)
                            ELSE localStorage,
                            currentUserId[1])
                /\ previousUserIdRef' = currentUserId
                /\ UNCHANGED hasInitializedRef
           ELSE UNCHANGED <<localStorage, hasInitializedRef, previousUserIdRef>>
    /\ UNCHANGED <<memory, isLoaded, userId,
                   designerVars, activityVars, workspaceVars, syncVars, autoSaveVars>>

\* the signed-in user changes a persisted store (a workspace, the model):
\* the store then holds that user's data too and persist writes its state
\* under its key; the session effect has run for the present user
persistStore(key) ==
    /\ isLoaded
    /\ userId # <<>>
    /\ sessionSeen = <<<<userId, isLoaded>>>>
    /\ memory' = [memory EXCEPT ![key] = @ \cup {userId[1]}]
    /\ localStorage' = [localStorage EXCEPT ![key] = <<memory'[key]>>]
    /\ UNCHANGED <<isLoaded, userId, hasInitializedRef, previousUserIdRef, sessionSeen,
                   designerVars, activityVars, workspaceVars, syncVars, autoSaveVars>>

\* the page is loaded anew: the stores are filled from their keys, the hook
\* starts over and the session is not loaded yet
reloadPage ==
    /\ memory' = [key \in PersistedStores |->
                    IF localStorage[key] = <<>> THEN {} ELSE localStorage[key][1]]
    /\ isLoaded' = FALSE
    /\ userId' = <<>>
    /\ hasInitializedRef' = FALSE
    /\ previousUserIdRef' = <<>>
    /\ sessionSeen' = <<>>
    /\ UNCHANGED <<localStorage,
                   designerVars, activityVars, workspaceVars, syncVars, autoSaveVars>>

UserSessionNext ==
    \/ \E user \in {<<>>} \cup {<<u>> : u \in Users} : authReports(user)
    \/ userSessionEffect
    \/ \E key \in PersistedStores : persistStore(key)
    \/ reloadPage

UserSession == Init /\ [][UserSessionNext]_vars

\* the keys of the persisted stores
DataKeys == {"workspace-store", "model-store", "activity-store"}

\* the session effect runs with the session loaded and finds a logout or an
\* account switch: no user, or a user other than the stored or the previously
\* observed one
SwitchOrLogoutSeen ==
    /\ sessionSeen' # sessionSeen
    /\ sessionSeen' # <<>>
    /\ isLoaded
    /\ \/ userId = <<>> /\ (localStorage["current-user-id"] # <<>> \/ previousUserIdRef # <<>>)
       \/ userId # <<>> /\ localStorage["current-user-id"] \notin {<<>>, userId}
       \/ userId # <<>> /\ hasInitializedRef /\ previousUserIdRef \notin {<<>>, userId}

\* C23: useUserSession isolates users: an effect run that finds a logout or
\* an account switch removes workspace-store, model-store and activity-store
\* from localStorage and, for a switch, leaves the new user's id in
\* current-user-id; and whenever current-user-id holds a user's id, no
\* persisted store holds data of another user
UsersAreIsolated ==
    /\ [][SwitchOrLogoutSeen =>
            /\ \A key \in DataKeys : localStorage'[key] = <<>>
            /\ localStorage'["current-user-id"] = userId]_vars
    /\ [](localStorage["current-user-id"] # <<>> =>
            \A key \in DataKeys :
                localStorage[key] # <<>> =>
                    localStorage[key][1] \subseteq {localStorage["current-user-id"][1]})

====
